---- MODULE Spec2Model ----
(***************************************************************************)
(* Model of the Safe Communication Rewriter backend: the POST /api/rewrite *)
(* pipeline (body sanitisation, request validation, CacheService, the      *)
(* Gemini gateway, history / usage / pattern bookkeeping, the error        *)
(* handler) and of the Next.js /api/gemini/analyze route with its          *)
(* in-process GeminiService.                                               *)
(*                                                                         *)
(* Strings are abstracted to what the code looks at: a message is a record *)
(* of its type, its content identity and its lengths; an error message is  *)
(* the sequence of its words, so that String.includes is a real search.    *)
(***************************************************************************)
EXTENDS Integers, Sequences, FiniteSets, TLC

(***************************************************************************)
(* Bounds of the model.                                                    *)
(***************************************************************************)
MaxReqs == 2          \* concurrent POST /api/rewrite requests
MaxExpiryReqs == 3    \* requests around the expiry of one cache entry
MaxTicks == 3         \* clock advances
TickMs == 150000      \* milliseconds per clock advance
MaxCacheFaults == 1   \* losses of the Redis connection
MaxDbFaults == 1      \* losses of the MongoDB connection
MaxFrontCalls == 2     \* POSTs to /api/gemini/analyze
MaxBurstCalls == 11    \* POSTs to /api/gemini/analyze of the run against its limiter
MaxInFlight == 2       \* of those, the calls awaiting fetch at the same time
MaxHookCalls == 3      \* calls of rewriteMessage of the useSafeRewriter hook
MaxPatternCallers == 2 \* concurrent callers of the ScamPattern model
MaxPatternOps == 12    \* calls of the ScamPattern model
MaxVariants == 11      \* distinct texts with one pattern hash
MaxWebReqs == 6        \* HTTP requests through the middleware chain
MaxLimitReqs == 11     \* HTTP requests of the run against the limiters
MaxStored == 52        \* patterns in the collection of the trending query

(***************************************************************************)
(* Program constants.                                                      *)
(***************************************************************************)
MaxMessageLength == 1000     \* config.api.maxMessageLength
RewriteTtl == 300            \* cacheService.set(cacheKey, aiResult, 300)
NextMaxLength == 1000        \* route.ts: message.length > 1000
EscapedAmpLength == 5        \* validator escape(): '&' becomes '&amp;'
DefaultDaysToKeep == 30      \* cleanupOldRecords(daysToKeep = 30)
MsPerDay == 86400000         \* Date.setDate arithmetic, one day in ms
MaxExamples == 10            \* addExample: this.examples.length < 10
CriticalFlags == 7           \* assessSeverity: redFlags >= 7
HighFlags == 5               \* assessSeverity: redFlags >= 5
MediumFlags == 3             \* assessSeverity: redFlags >= 3
DefaultLimit == 10           \* getTrendingPatterns: const { limit = 10 }
TrendingExamples == 3        \* getTrendingPatterns: examples.slice(0, 3)
GeneralMax == 10             \* RATE_LIMIT_MAX default: generalRateLimit max
RateLimitWindowMs == 60000   \* RATE_LIMIT_WINDOW_MS default
RewriteMax == 5              \* rewriteRateLimit max
UserMax == 20                \* userRateLimit max
AnalyticsMax == 10           \* analyticsRateLimit max
PatternMax == 3              \* patternRateLimit max
AnalyticsRetryAfter == 300   \* analyticsRateLimit retryAfter, seconds
PatternRetryAfter == 60      \* patternRateLimit retryAfter, seconds

None == "none"

(***************************************************************************)
(* Messages.  typ is the JSON type of body.message; body identifies the    *)
(* text left after trimming; len is the length in characters; ws counts    *)
(* the leading and trailing whitespace characters; amp the characters that *)
(* validator's escape() expands (modelled as '&'); lt the '<' and '>'      *)
(* characters.                                                             *)
(***************************************************************************)
Msg(t, b, l, w, a, g) ==
  [typ |-> t, body |-> b, len |-> l, ws |-> w, amp |-> a, lt |-> g]

MissingMsg == Msg("missing", "", 0, 0, 0, 0)
NonStringMsg == Msg("nonstring", "", 0, 0, 0, 0)
EmptyMsg == Msg("string", "", 0, 0, 0, 0)
BlankMsg == Msg("string", "", 2, 2, 0, 0)
PayMsg == Msg("string", "pay", 10, 0, 0, 0)
PayPaddedMsg == Msg("string", "pay", 12, 2, 0, 0)
WinMsg == Msg("string", "win", 8, 0, 0, 0)
ClickMsg == Msg("string", "click", 40, 0, 0, 0)
LongMsg == Msg("string", "long", MaxMessageLength + 1, 0, 0, 0)
FullMsg == Msg("string", "full", MaxMessageLength, 0, 0, 0)
AmpMsg == Msg("string", "amp", MaxMessageLength, 0, 1, 0)
AngleMsg == Msg("string", "angle", MaxMessageLength + 1, 0, 0, 1)

\* Messages given character by character: "Aa", "BB" and "payment"
AaMsg == Msg("string", "Aa", 2, 0, 0, 0)
BBMsg == Msg("string", "BB", 2, 0, 0, 0)
PaymentMsg == Msg("string", "payment", 7, 0, 0, 0)
SpelledMessages == {AaMsg, BBMsg, PaymentMsg}

\* Every shape of body.message a client can send.
MessageInputs ==
  {MissingMsg, NonStringMsg, EmptyMsg, BlankMsg, PayMsg, PayPaddedMsg,
   LongMsg, FullMsg, AmpMsg, AngleMsg, ClickMsg, WinMsg}

\* The messages of the concurrent pipeline specification.
PipelineMessages == {BlankMsg, PayPaddedMsg}

IsString(m) == m.typ = "string"

\* String.prototype.trim
Trim(m) == [m EXCEPT !.len = m.len - m.ws, !.ws = 0]

\* obj.replace(/[<>]/g, '')
StripAngles(m) == [m EXCEPT !.len = m.len - m.lt, !.lt = 0]

\* validator escape(): each '&' grows to '&amp;'
Escape(m) == [m EXCEPT !.len = m.len + (EscapedAmpLength - 1) * m.amp]

\* app.ts input sanitisation middleware, applied to every string of req.body
Sanitize(m) == IF IsString(m) THEN Trim(StripAngles(m)) ELSE m

(***************************************************************************)
(* Regions.  "absent" is a body without a region field.                    *)
(***************************************************************************)
AllowedRegions == {"US", "IN"}
RegionInputs == {"absent", "IN", "XX"}
PipelineRegions == {"absent", "IN"}

\* const { message, region = 'US', userId } = req.body
DefaultRegion(g) == IF g = "absent" THEN "US" ELSE g

(***************************************************************************)
(* Errors: name is Error.name, words the words of Error.message.           *)
(***************************************************************************)
\* String.prototype.includes on word sequences
Includes(text, sub) ==
  \E i \in 0..(Len(text) - Len(sub)) :
    \A j \in 1..Len(sub) : text[i + j] = sub[j]

\* The substrings errorHandler searches Error.message for.
RateLimitWords == <<"rate", "limit">>
GeminiApiWords == <<"Gemini", "API">>
CacheWords == <<"Cache">>
DatabaseWords == <<"Database">>

(***************************************************************************)
(* middleware/errorHandler.ts                                              *)
(***************************************************************************)
\* class APIError extends Error: the constructor sets statusCode and code,
\* never name, so name stays "Error".
APIError(message, statusCode, code) ==
  [name |-> "Error", words |-> message, statusCode |-> statusCode, code |-> code]

\* class ValidationError extends APIError: constructor(field, message, value)
ValidationError(field, message, value) ==
  APIError(message, 400, "VALIDATION_ERROR")

\* new Error(message)
PlainError(message) ==
  [name |-> "Error", words |-> message, statusCode |-> 0, code |-> None]

\* an error raised by a library, with the name the library gives it
NamedError(name, message) ==
  [name |-> name, words |-> message, statusCode |-> 0, code |-> None]

NoError == NamedError(None, <<>>)

\* The rewritten message as the gateway returns it (RewriteResponse['data']).
Result(orig, safe, ndiff, rff) ==
  [original |-> orig, safe |-> safe, ndiff |-> ndiff, rff |-> rff,
   diffsIsArray |-> TRUE, tone |-> "ok", rffIsNumber |-> TRUE]

NoResult == Result("", "", 0, 0)

\* The response of errorHandler: {success: false, error: {code, message, timestamp}}
\* the members of the error object of errorHandler's response
ErrorFields == {"code", "message", "timestamp"}

\* retryAfter is <<>> where the body has no such member, <<seconds>> otherwise.
ErrorResponse(statusCode, code) ==
  [kind |-> "error", status |-> statusCode, code |-> code, cached |-> FALSE,
   data |-> NoResult, fields |-> ErrorFields, retryAfter |-> <<>>]

\* sendSuccessResponse(res, {...result, cached})
SuccessResponse(result, cached) ==
  [kind |-> "success", status |-> 200, code |-> None, cached |-> cached,
   data |-> result, fields |-> {}, retryAfter |-> <<>>]

NoResponse ==
  [kind |-> None, status |-> 0, code |-> None, cached |-> FALSE,
   data |-> NoResult, fields |-> {}, retryAfter |-> <<>>]

errorHandler(error) ==
  IF error.name = "ValidationError" THEN ErrorResponse(400, "VALIDATION_ERROR")
  ELSE IF error.name = "CastError" THEN ErrorResponse(400, "INVALID_FORMAT")
  ELSE IF error.name = "MongoError" /\ error.code = "11000"
    THEN ErrorResponse(409, "DUPLICATE_ENTRY")
  ELSE IF error.name = "JsonWebTokenError" THEN ErrorResponse(401, "INVALID_TOKEN")
  ELSE IF error.name = "TokenExpiredError" THEN ErrorResponse(401, "TOKEN_EXPIRED")
  ELSE IF Includes(error.words, RateLimitWords)
    THEN ErrorResponse(429, "RATE_LIMIT_EXCEEDED")
  ELSE IF Includes(error.words, GeminiApiWords)
    THEN ErrorResponse(502, "AI_SERVICE_ERROR")
  ELSE IF Includes(error.words, CacheWords)
    THEN ErrorResponse(503, "CACHE_SERVICE_ERROR")
  ELSE IF Includes(error.words, DatabaseWords)
    THEN ErrorResponse(503, "DATABASE_SERVICE_ERROR")
  ELSE ErrorResponse(500, "INTERNAL_ERROR")

(***************************************************************************)
(* middleware/validation.ts: validateRewriteRequest                        *)
(***************************************************************************)
\* body('message').isString().isLength({min: 1, max}): the validators look at
\* the value as it arrives, before .trim().escape() rewrite it.
MessageFieldValid(m) ==
  IsString(m) /\ m.len >= 1 /\ m.len <= MaxMessageLength

\* body('region').optional().isString().isIn([...])
RegionFieldValid(g) == g = "absent" \/ g \in AllowedRegions

\* the sanitizers of the message chain
MessageFieldSanitized(m) == Escape(Trim(m))

\* handleValidationErrors: throw new ValidationError('Validation failed', 400,
\* 'VALIDATION_ERROR', errorMessages): the arguments land on (field, message,
\* value), so the message of the error is 400.
handleValidationErrors ==
  ValidationError(<<"Validation", "failed">>, <<"400">>, "VALIDATION_ERROR")

(***************************************************************************)
(* services/geminiService.ts (backend AI gateway)                          *)
(***************************************************************************)
\* RewriteGuard without its length check
RewriteGuardNoLength(m) ==
  IF ~IsString(m) \/ m.len = 0
    THEN PlainError(<<"Message", "is", "required", "and", "must", "be", "a", "string">>)
  ELSE IF Trim(m).len = 0
    THEN PlainError(<<"Message", "cannot", "be", "empty">>)
  ELSE NoError

\* The input checks at the head of GeminiService.rewriteMessage; NoError
\* when the message passes.
RewriteGuard(m) ==
  IF ~IsString(m) \/ m.len = 0
    THEN PlainError(<<"Message", "is", "required", "and", "must", "be", "a", "string">>)
  ELSE IF m.len > MaxMessageLength
    THEN PlainError(<<"Message", "too", "long", ".">>)
  ELSE IF Trim(m).len = 0
    THEN PlainError(<<"Message", "cannot", "be", "empty">>)
  ELSE NoError

\* What the generation endpoint can answer: an HTTP error status, no
\* response at all (network failure, 30 s timeout), or a 200 whose body
\* carries (or not) a first candidate with the model's text.
Payload(json, orig, safe, isArr, n, tone, isNum, rff) ==
  [json |-> json, orig |-> orig, safe |-> safe, diffsIsArray |-> isArr,
   ndiff |-> n, tone |-> tone, rffIsNumber |-> isNum, rff |-> rff]

NoPayload == Payload("none", "", "", FALSE, 0, "missing", FALSE, 0)

\* retryAfter is the Retry-After header of the response: <<>> when absent.
Reply(kind, status, envelope, payload) ==
  [kind |-> kind, status |-> status, envelope |-> envelope, payload |-> payload,
   retryAfter |-> <<>>]

OkReply(payload) == Reply("ok", 200, TRUE, payload)
HttpReply(status) == Reply("http", status, FALSE, NoPayload)
NetworkReply == Reply("network", 0, FALSE, NoPayload)
NoCandidateReply == Reply("ok", 200, FALSE, NoPayload)
\* a 429 that names the seconds to wait
HintedReply == [HttpReply(429) EXCEPT !.retryAfter = <<30>>]
\* no request has been answered yet
NoReply == Reply("none", 0, FALSE, NoPayload)

GoodPayloadA == Payload("object", "echo", "A", TRUE, 2, "ok", TRUE, 4)
GoodPayloadB == Payload("object", "echo", "B", TRUE, 1, "ok", TRUE, 7)
NoDiffPayload == Payload("object", "echo", "A", TRUE, 0, "ok", TRUE, 0)
ManyFlagsPayload == Payload("object", "echo", "A", TRUE, 2, "ok", TRUE, 11)
NoCountPayload == Payload("object", "echo", "A", TRUE, 2, "ok", FALSE, 0)
ProsePayload == Payload("none", "", "", FALSE, 0, "missing", FALSE, 0)
BrokenJsonPayload == Payload("invalid", "", "", FALSE, 0, "missing", FALSE, 0)
NoSafePayload == Payload("object", "echo", "", TRUE, 2, "ok", TRUE, 4)
NoArrayPayload == Payload("object", "echo", "A", FALSE, 0, "ok", TRUE, 4)
NoTonePayload == Payload("object", "echo", "A", TRUE, 2, "noscam", TRUE, 4)
NegativeFlagsPayload == Payload("object", "echo", "A", TRUE, 2, "ok", TRUE, -1)
NoCountManyDiffsPayload == Payload("object", "echo", "A", TRUE, 11, "ok", FALSE, 0)

\* the error statuses the endpoint answers with
UpstreamStatuses == {400, 401, 403, 429, 500, 503}

UpstreamReplies ==
  {OkReply(GoodPayloadA), OkReply(GoodPayloadB), OkReply(NoDiffPayload),
   OkReply(ManyFlagsPayload), OkReply(NoCountPayload), OkReply(ProsePayload),
   OkReply(BrokenJsonPayload), OkReply(NoSafePayload), OkReply(NoArrayPayload),
   OkReply(NoTonePayload), OkReply(NegativeFlagsPayload),
   OkReply(NoCountManyDiffsPayload), NoCandidateReply, NetworkReply}
  \cup {HttpReply(status) : status \in UpstreamStatuses}
  \cup {HintedReply}

\* The replies of the concurrent pipeline specification.
PipelineReplies ==
  {OkReply(GoodPayloadA), OkReply(GoodPayloadB), OkReply(NoDiffPayload),
   NetworkReply, HttpReply(429)}

\* callGeminiAPI: NoError when the response is returned to the caller.
callGeminiAPI(reply) ==
  IF reply.kind = "http" THEN
    CASE reply.status = 400 ->
           PlainError(<<"Invalid", "request", "to", "Gemini", "API", ":", "Bad", "Request">>)
      [] reply.status = 401 -> PlainError(<<"Invalid", "Gemini", "API", "key">>)
      [] reply.status = 403 -> PlainError(<<"Gemini", "API", "access", "forbidden">>)
      [] reply.status = 429 ->
           PlainError(<<"Gemini", "API", "rate", "limit", "exceeded", ".",
                        "Please", "try", "again", "later", ".">>)
      [] reply.status = 500 ->
           PlainError(<<"Gemini", "API", "internal", "server", "error">>)
      [] OTHER -> PlainError(<<"Gemini", "API", "error", ":", "status">>)
  ELSE IF reply.kind = "network"
    THEN PlainError(<<"Network", "error", ":", "Unable", "to", "reach", "Gemini", "API">>)
  ELSE IF ~reply.envelope
    THEN PlainError(<<"Gemini", "API", "error", ":", "Invalid", "response",
                      "format", "from", "Gemini", "API">>)
  ELSE NoError

\* ParseFailure without the tone_comparison check
ParseFailureNoTone(p) ==
  IF p.json = "none"
    THEN PlainError(<<"No", "JSON", "found", "in", "Gemini", "response">>)
  ELSE IF p.json = "invalid"
    THEN NamedError("SyntaxError", <<"Unexpected", "token">>)
  ELSE IF p.orig = "" \/ p.safe = ""
    THEN PlainError(<<"Missing", "required", "fields", "in", "Gemini", "response">>)
  ELSE IF ~p.diffsIsArray
    THEN PlainError(<<"Differences", "must", "be", "an", "array">>)
  ELSE NoError

\* The error parseGeminiResponse throws inside its try block, NoError if none.
ParseFailure(p) ==
  IF p.json = "none"
    THEN PlainError(<<"No", "JSON", "found", "in", "Gemini", "response">>)
  ELSE IF p.json = "invalid"
    THEN NamedError("SyntaxError", <<"Unexpected", "token">>)
  ELSE IF p.orig = "" \/ p.safe = ""
    THEN PlainError(<<"Missing", "required", "fields", "in", "Gemini", "response">>)
  ELSE IF ~p.diffsIsArray
    THEN PlainError(<<"Differences", "must", "be", "an", "array">>)
  ELSE IF p.tone # "ok"
    THEN PlainError(<<"Invalid", "tone", "comparison", "in", "response">>)
  ELSE NoError

\* parseGeminiResponse, error side: the catch rethrows with a prefix.
parseGeminiError(p) ==
  IF ParseFailure(p) = NoError THEN NoError
  ELSE PlainError(<<"Failed", "to", "parse", "Gemini", "response", ":">>
                  \o ParseFailure(p).words)

\* parseGeminiResponse, value side.
parseGeminiResponse(p) ==
  [Result(p.orig, p.safe, p.ndiff, IF p.rffIsNumber THEN p.rff ELSE p.ndiff)
     EXCEPT !.diffsIsArray = p.diffsIsArray, !.tone = p.tone]

\* The part of GeminiService.rewriteMessage after the request was sent: the
\* error it throws for a reply, NoError when it returns a result.
rewriteError(reply) ==
  IF callGeminiAPI(reply) # NoError THEN callGeminiAPI(reply)
  ELSE parseGeminiError(reply.payload)

(***************************************************************************)
(* models/RewriteHistory.ts                                                *)
(***************************************************************************)
\* HistorySaveError without the bounds of red_flags_fixed
HistorySaveErrorNoRange(doc) ==
  IF doc.ndiff = 0
    THEN PlainError(<<"At", "least", "one", "difference", "must", "be", "provided">>)
  ELSE NoError

\* save(): schema validation (red_flags_fixed min 0, max 10) runs before the
\* pre('save') hook; NoError when the document may be written.
HistorySaveError(doc) ==
  IF doc.red_flags_fixed < 0 \/ doc.red_flags_fixed > 10
    THEN NamedError("ValidationError",
                    <<"RewriteHistory", "validation", "failed", ":", "red_flags_fixed">>)
  ELSE IF doc.ndiff = 0
    THEN PlainError(<<"At", "least", "one", "difference", "must", "be", "provided">>)
  ELSE NoError

\* a failed driver operation while MongoDB is unreachable
MongoDownError ==
  NamedError("MongoNetworkError", <<"connection", "closed">>)

\* this.categorizeMessage(...) with `this` undefined
UndefinedThisError ==
  NamedError("TypeError", <<"Cannot", "read", "properties", "of", "undefined">>)

(***************************************************************************)
(* services/cacheService.ts                                                *)
(***************************************************************************)
\* getRewriteKey: 'rewrite:' + sha256(message + ':' + region); the digest is
\* taken to be collision free, so the key is the pair it was computed from.
getRewriteKey(m, g) == [prefix |-> "rewrite", message |-> m, region |-> g]

NoKey == getRewriteKey(MissingMsg, None)

\* CacheEntry<T> as JSON.stringify writes it; writer names the request whose
\* set produced it (bookkeeping of the model, not stored by the code).
CacheEntry(key, data, timestamp, ttl, writer) ==
  [key |-> key, data |-> data, timestamp |-> timestamp, ttl |-> ttl,
   writer |-> writer]

NoEntry == CacheEntry(NoKey, NoResult, 0, 0, 0)

\* IsExpired with the TTL taken for milliseconds
ExpiresInMs(entry, t) == t - entry.timestamp > entry.ttl

\* IsExpired with the TTL scaled twice
ExpiresInKs(entry, t) == t - entry.timestamp > entry.ttl * 1000 * 1000

\* Date.now() - parsedData.timestamp > parsedData.ttl * 1000
IsExpired(entry, t) == t - entry.timestamp > entry.ttl * 1000

\* SETEX: Redis itself drops the key once ttl seconds have passed.
RedisExpired(entry, t) == t >= entry.timestamp + entry.ttl * 1000

(***************************************************************************)
(* State.                                                                  *)
(***************************************************************************)
VARIABLES
  now,          \* Date.now(), in ms
  started,      \* startServer has connected the services and listens
  client,       \* CacheService.client: "null" or "created"
  isConnected,  \* CacheService.isConnected
  redisUp,      \* the Redis server is reachable
  cacheFaults,  \* Redis connection losses so far
  store,        \* the keys held by Redis: a set of cache entries
  dbUp,         \* MongoDB is reachable
  dbFaults,     \* MongoDB connection losses so far
  history,      \* the rewritehistories collection
  users,        \* the users collection: usage_count of each user
  patterns,     \* the scampatterns collection
  pcall,        \* the callers of the ScamPattern model, each idle or holding a document
  pstats,       \* what the callers of the ScamPattern model have done so far
  req,          \* the POST /api/rewrite requests
  direct,       \* calls of geminiService.rewriteMessage from other callers
  front,        \* the GeminiService instance of the Next.js server
  fcall,        \* the POST /api/gemini/analyze requests
  web,          \* the HTTP request the Express application is handling
  hits,         \* the hit counters of the rate limiters, by limiter and key
  passed,       \* the requests each limiter handed on in its current window
  proc,         \* the Node.js process of the Express server
  hook,         \* the state of the useSafeRewriter hook
  hcall         \* the calls of the hook's rewriteMessage

vars ==
  <<now, started, client, isConnected, redisUp, cacheFaults, store, dbUp,
    dbFaults, history, users, patterns, pcall, pstats, req, direct, front,
    fcall, web, hits, passed, proc, hook, hcall>>

cacheVars == <<client, isConnected, redisUp, cacheFaults>>
dbVars == <<dbUp, dbFaults>>
patternVars == <<patterns, pcall, pstats>>
frontVars == <<front, fcall, hook, hcall>>
surfaceVars == <<web, hits, passed, proc>>

Reqs == 1..MaxReqs
UserIds == {"u1"}
UserInputs == {None} \cup UserIds

\* A request before it arrives.
NewRequest ==
  [pc |-> "new", input |-> MissingMsg, message |-> MissingMsg,
   region |-> None, user |-> None, userId |-> None,
   userCount |-> 0, key |-> NoKey, sawCache |-> FALSE, hit |-> FALSE,
   sent |-> 0, replied |-> FALSE, payload |-> NoPayload,
   reply |-> NoReply, result |-> NoResult, wrote |-> {},
   response |-> NoResponse]

\* The pipeline hands the error to next(error): errorHandler answers.
Fail(r, error) ==
  req' = [req EXCEPT ![r].pc = "done", ![r].response = errorHandler(error)]

EntryOf(key) ==
  IF \E e \in store : e.key = key
    THEN CHOOSE e \in store : e.key = key
    ELSE NoEntry

\* !this.isConnected || !this.client
CacheUnavailable == ~isConnected \/ client = "null"

(***************************************************************************)
(* models/ScamPattern.ts                                                   *)
(***************************************************************************)
\* A text seen by the pattern model: norm is text.toLowerCase().trim(),
\* variant tells apart texts (case, padding) with the same norm.
PatternText(norm, variant) == [norm |-> norm, variant |-> variant]

\* The hash all pattern texts of the model share.
PatternNorm == "pay"

\* generatePatternHash: sha256 of text.toLowerCase().trim(), taken to be
\* collision free
generatePatternHash(text) == text.norm

\* A ScamPattern document
Pattern(hash, frequency, examples, last_seen) ==
  [pattern_hash |-> hash, frequency |-> frequency, examples |-> examples,
   last_seen |-> last_seen, is_active |-> TRUE, category |-> "other",
   severity |-> "medium"]

NoPattern == Pattern(None, 0, <<>>, 0)

\* findByHash: findOne({pattern_hash}), NoPattern for null
findByHash(hash) ==
  IF \E d \in patterns : d.pattern_hash = hash
    THEN CHOOSE d \in patterns : d.pattern_hash = hash
    ELSE NoPattern

\* incrementFrequency leaving last_seen as it was
incrementFrequencyNoTouch(doc) == [doc EXCEPT !.frequency = @ + 1]

\* incrementFrequency, on the document the caller holds
incrementFrequency(doc) ==
  [doc EXCEPT !.frequency = @ + 1, !.last_seen = now]

\* addExample, on the document the caller holds
addExample(doc, example) ==
  IF (\A i \in 1..Len(doc.examples) : doc.examples[i] # example)
     /\ Len(doc.examples) < MaxExamples
    THEN [doc EXCEPT !.examples = Append(@, example), !.last_seen = now]
    ELSE doc

\* new this({pattern_hash, category, severity, examples: [message], frequency: 1})
NewPattern(text, category, severity) ==
  [Pattern(generatePatternHash(text), 1, <<text>>, now)
     EXCEPT !.category = category, !.severity = severity]

\* save() of a held document: the stored document takes the held values
Saved(doc) == {d \in patterns : d.pattern_hash # doc.pattern_hash} \cup {doc}

\* findOrCreatePattern run without interruption
Upserted(text, category, severity) ==
  IF findByHash(generatePatternHash(text)) # NoPattern
    THEN Saved(incrementFrequency(findByHash(generatePatternHash(text))))
    ELSE Saved(NewPattern(text, category, severity))

\* sort({frequency: -1, last_seen: -1}): p is not ranked after q
RankedBefore(p, q) ==
  \/ p.frequency > q.frequency
  \/ p.frequency = q.frequency /\ p.last_seen >= q.last_seen

\* The documents of docs in the order of the sort; documents the sort keys do
\* not tell apart come in an order of the store's choosing.
RECURSIVE Ranked(_)
Ranked(docs) ==
  IF docs = {} THEN <<>>
  ELSE LET top == CHOOSE p \in docs : \A q \in docs : RankedBefore(p, q)
       IN <<top>> \o Ranked(docs \ {top})

\* Query.limit(n): the first n documents, all of them for limit(0)
Limited(docs, n) ==
  IF n = 0 \/ n >= Len(docs) THEN docs ELSE SubSeq(docs, 1, n)

\* findTrending: find({is_active: true}).sort(...).limit(limit)
findTrending(limit) ==
  Limited(Ranked({p \in patterns : p.is_active}), limit)

\* examples.slice(0, 3)
FirstThree(examples) ==
  IF Len(examples) <= TrendingExamples THEN examples
  ELSE SubSeq(examples, 1, TrendingExamples)

\* The patterns of getTrendingPatterns' response; active is what the stored
\* document says, the response does not carry it.
TrendingView(docs) ==
  [i \in 1..Len(docs) |->
     [id |-> docs[i].pattern_hash, frequency |-> docs[i].frequency,
      lastSeen |-> docs[i].last_seen, examples |-> FirstThree(docs[i].examples),
      active |-> docs[i].is_active]]

\* The i-th document of a collection filled before the server started; every
\* idleEvery-th pattern has been deactivated.
StoredPattern(i, idleEvery) ==
  [Pattern(i, ((i * 7) % 13) + 1,
           [j \in 1..(i % 5) |-> PatternText(PatternNorm, j)], i % 3)
     EXCEPT !.is_active = (i % idleEvery # 0)]

StoredPatterns(size, idleEvery) ==
  {StoredPattern(i, idleEvery) : i \in 1..size}

\* ?limit= of GET /patterns/trending; DefaultLimit stands for no parameter
LimitInputs == {DefaultLimit, 0, 1, 3, 50, 51, 100}

PatternCallers == 1..MaxPatternCallers
PatternOps == {"upsert", "increment", "addExample"}

\* A caller not inside a call.
IdleCaller ==
  [pc |-> "idle", op |-> None, text |-> PatternText(None, 0), doc |-> NoPattern]

\* Calls begun, findOrCreatePattern calls returned and rejected, the other
\* calls returned, and the time of the last change of frequency.
NoStats ==
  [calls |-> 0, upserts |-> 0, failed |-> 0, increments |-> 0, lastAt |-> 0]

\* A direct call of geminiService.rewriteMessage before it is made.
(***************************************************************************)
(* app.ts, routes/communicationRoutes.ts, middleware/rateLimiter.ts: the   *)
(* middleware chain in front of the controllers.                           *)
(***************************************************************************)
Routes == {"rewrite", "history", "analytics", "patterns", "trending", "unknown"}

\* router.post for /rewrite and /patterns, router.get for the others
MethodOf(route) == IF route \in {"rewrite", "patterns"} THEN "POST" ELSE "GET"

\* skip of generalRateLimit: req.path === '/api/health'
SkipsGeneralLimit(route) == route = "health"

\* The limiter each route names before its validators.
LimiterOf(route) ==
  CASE route = "rewrite" -> "rewrite"
    [] route = "history" -> "user"
    [] route = "analytics" -> "analytics"
    [] route = "patterns" -> "pattern"
    [] OTHER -> "general"

\* max of each limiter
MaxOf(limiter) ==
  CASE limiter = "rewrite" -> RewriteMax
    [] limiter = "user" -> UserMax
    [] limiter = "analytics" -> AnalyticsMax
    [] limiter = "pattern" -> PatternMax
    [] OTHER -> GeneralMax

\* retryAfter of each limiter's handler, in seconds
RetryAfterOf(limiter) ==
  CASE limiter = "analytics" -> AnalyticsRetryAfter
    [] limiter = "pattern" -> PatternRetryAfter
    [] OTHER -> (RateLimitWindowMs + 999) \div 1000

\* keyGenerator: req.ip, for userRateLimit req.user?.id || req.ip
KeyOf(limiter, user) ==
  IF limiter = "user" /\ user # None THEN <<limiter, user>> ELSE <<limiter, "ip">>

LimiterKeys ==
  {<<l, "ip">> : l \in {"general", "rewrite", "user", "analytics", "pattern"}}
    \cup {<<"user", u>> : u \in UserIds}

\* The body of a limiter's handler:
\* res.status(429).json({success: false, error: '...', retryAfter})
RateLimitResponse(limiter) ==
  [kind |-> "error", status |-> 429, code |-> None, cached |-> FALSE,
   data |-> NoResult, fields |-> {}, retryAfter |-> <<RetryAfterOf(limiter)>>]

\* getHistory without req.user
AuthenticationRequired ==
  APIError(<<"User", "authentication", "required">>, 401, "AUTHENTICATION_REQUIRED")

\* No request is being handled. validated says that the validators ran,
\* reached that the controller ran, body
\* names what a success response carries.
NoWebRequest ==
  [pc |-> "idle", n |-> 0, route |-> None, json |-> TRUE, large |-> FALSE,
   user |-> None, valid |-> TRUE, limit |-> DefaultLimit,
   validated |-> FALSE, reached |-> FALSE, body |-> None, returned |-> <<>>,
   services |-> [database |-> None, redis |-> None, gemini |-> None],
   response |-> NoResponse]

\* the answers of the endpoint to the POST /rewrite requests of this chain
SurfaceReplies == {OkReply(GoodPayloadA), HttpReply(429), HintedReply, NetworkReply}

NewDirect ==
  [pc |-> "new", input |-> MissingMsg, sent |-> 0, threw |-> FALSE,
   result |-> NoResult]

(***************************************************************************)
(* hooks/useSafeRewriter.ts                                                *)
(***************************************************************************)
HookCalls == 1..MaxHookCalls

\* useState(false), useState(null), useState(null)
NoHook == [isLoading |-> FALSE, error |-> None, result |-> None]

NewHookCall == [pc |-> "new", message |-> MissingMsg]

(***************************************************************************)
(* server.ts: the process of the Express server                            *)
(***************************************************************************)
\* closed: server.close has been called; database: database.disconnect has
\* run; code: the argument of process.exit
NoProcess ==
  [exited |-> FALSE, code |-> 0, signal |-> None, closed |-> FALSE,
   database |-> FALSE]

(***************************************************************************)
(* lib/services/geminiService.ts and app/api/gemini/analyze/route.ts       *)
(***************************************************************************)
FrontCalls == 1..MaxFrontCalls

\* The singleton before getGeminiService() has built it.
NoFront ==
  [created |-> FALSE, cache |-> {}, requests |-> 0, resetTime |-> 0,
   isLimited |-> FALSE]

NewFrontCall ==
  [pc |-> "new", input |-> MissingMsg, at |-> 0, sent |-> 0, status |-> 0,
   code |-> None, cached |-> FALSE]

Init ==
  /\ now = 0
  /\ started = FALSE
  /\ client = "null"
  /\ isConnected = FALSE
  /\ redisUp = TRUE
  /\ cacheFaults = 0
  /\ store = {}
  /\ dbUp = TRUE
  /\ dbFaults = 0
  /\ history = {}
  /\ users = [u \in UserIds |-> 0]
  /\ patterns = {}
  /\ pcall = [c \in PatternCallers |-> IdleCaller]
  /\ pstats = NoStats
  /\ req = [r \in Reqs |-> NewRequest]
  /\ direct = NewDirect
  /\ front = NoFront
  /\ fcall = [c \in FrontCalls |-> NewFrontCall]
  /\ web = NoWebRequest
  /\ hits = [k \in LimiterKeys |-> 0]
  /\ passed = [k \in LimiterKeys |-> 0]
  /\ proc = NoProcess
  /\ hook = NoHook
  /\ hcall = [k \in HookCalls |-> NewHookCall]

(***************************************************************************)
(* The environment: the clock, Redis and MongoDB.                          *)
(***************************************************************************)
\* Time passes: ms more milliseconds on the clock.
Tick(ms) ==
  /\ now < MaxTicks * TickMs
  /\ now' = now + ms
  /\ UNCHANGED <<started, cacheVars, store, dbVars, history, users, patternVars,
                 req, direct, frontVars, surfaceVars>>

\* Redis removes a key whose SETEX time has run out.
RedisExpire ==
  /\ \E e \in store :
       /\ RedisExpired(e, now)
       /\ store' = store \ {e}
  /\ UNCHANGED <<now, started, cacheVars, dbVars, history, users, patternVars,
                 req, direct, frontVars, surfaceVars>>

\* The connection to Redis is lost; commands fail from now on.
RedisFail ==
  /\ redisUp
  /\ cacheFaults < MaxCacheFaults
  /\ redisUp' = FALSE
  /\ cacheFaults' = cacheFaults + 1
  /\ UNCHANGED <<now, started, client, isConnected, store, dbVars, history,
                 users, patternVars, req, direct, frontVars, surfaceVars>>

RedisRecover ==
  /\ ~redisUp
  /\ redisUp' = TRUE
  /\ UNCHANGED <<now, started, client, isConnected, cacheFaults, store, dbVars,
                 history, users, patternVars, req, direct, frontVars,
                 surfaceVars>>

\* client.on('error') and client.on('disconnect')
OnClientError ==
  /\ client = "created"
  /\ ~redisUp
  /\ isConnected
  /\ isConnected' = FALSE
  /\ UNCHANGED <<now, started, client, redisUp, cacheFaults, store, dbVars,
                 history, users, patternVars, req, direct, frontVars,
                 surfaceVars>>

\* client.on('connect'), after the client has reconnected
OnClientConnect ==
  /\ client = "created"
  /\ redisUp
  /\ ~isConnected
  /\ isConnected' = TRUE
  /\ UNCHANGED <<now, started, client, redisUp, cacheFaults, store, dbVars,
                 history, users, patternVars, req, direct, frontVars,
                 surfaceVars>>

DbFail ==
  /\ dbUp
  /\ dbFaults < MaxDbFaults
  /\ dbUp' = FALSE
  /\ dbFaults' = dbFaults + 1
  /\ UNCHANGED <<now, started, cacheVars, store, history, users, patternVars,
                 req, direct, frontVars, surfaceVars>>

DbRecover ==
  /\ ~dbUp
  /\ dbUp' = TRUE
  /\ UNCHANGED <<now, started, cacheVars, store, dbFaults, history, users,
                 patternVars, req, direct, frontVars, surfaceVars>>

(***************************************************************************)
(* server.ts: startServer, as far as the cache is concerned.               *)
(* cacheService.connect leaves the client null without a Redis URL, and    *)
(* swallows a failed connect.                                              *)
(***************************************************************************)
StartServer ==
  /\ ~started
  /\ dbUp
  /\ started' = TRUE
  /\ \E url \in BOOLEAN :
       IF ~url
         THEN client' = "null" /\ isConnected' = FALSE
         ELSE client' = "created" /\ isConnected' = redisUp
  /\ UNCHANGED <<now, redisUp, cacheFaults, store, dbVars, history, users,
                 patternVars, req, direct, frontVars, surfaceVars>>

(***************************************************************************)
(* POST /api/rewrite                                                       *)
(***************************************************************************)
\* The receiver of the handler: asyncHandler calls fn(req, res, next) as a
\* plain function, so `this` inside rewriteMessage is undefined.
HandlerThis == "undefined"

\* The request passes the body sanitiser of app.ts and validateRewriteRequest,
\* and the handler starts: it computes the cache key.
Arrive(r, messages, regions, userIds) ==
  /\ started
  /\ req[r].pc = "new"
  /\ IF r = 1 THEN TRUE ELSE req[r - 1].pc # "new"
  /\ \E m \in messages, g \in regions, u \in UserInputs, id \in userIds :
       LET body == Sanitize(m) IN
       IF ~MessageFieldValid(body) \/ ~RegionFieldValid(g)
         THEN req' = [req EXCEPT
                ![r].pc = "done", ![r].input = m,
                ![r].response = errorHandler(handleValidationErrors)]
         ELSE req' = [req EXCEPT
                ![r].pc = "lookup",
                ![r].input = m,
                ![r].message = MessageFieldSanitized(body),
                ![r].region = DefaultRegion(g),
                ![r].user = u,
                ![r].userId = id,
                ![r].userCount = IF u = None THEN 0 ELSE users[u],
                ![r].key = getRewriteKey(MessageFieldSanitized(body),
                                         DefaultRegion(g))]
  /\ UNCHANGED <<now, started, cacheVars, store, dbVars, history, users,
                 patternVars, direct, frontVars, surfaceVars>>

\* cacheService.get up to its return or to the await of this.delete: null
\* when the cache is unavailable or the client throws, else the GET and the
\* expiry test.  On a hit the handler goes on to the usage increment or to
\* the response.
CacheGet(r) ==
  /\ req[r].pc = "lookup"
  /\ IF CacheUnavailable \/ ~redisUp \/ EntryOf(req[r].key) = NoEntry
       THEN req' = [req EXCEPT ![r].pc = "send",
                               ![r].sawCache = ~CacheUnavailable /\ redisUp]
     ELSE IF IsExpired(EntryOf(req[r].key), now)
       THEN req' = [req EXCEPT ![r].pc = "expire", ![r].sawCache = TRUE]
     ELSE IF req[r].user # None
       THEN req' = [req EXCEPT ![r].pc = "usage", ![r].sawCache = TRUE,
                               ![r].hit = TRUE,
                               ![r].result = EntryOf(req[r].key).data]
     ELSE req' = [req EXCEPT ![r].pc = "done", ![r].sawCache = TRUE,
                             ![r].hit = TRUE,
                             ![r].result = EntryOf(req[r].key).data,
                             ![r].response =
                               SuccessResponse(EntryOf(req[r].key).data, TRUE)]
  /\ UNCHANGED <<now, started, cacheVars, store, dbVars, history, users,
                 patternVars, direct, frontVars, surfaceVars>>

\* await this.delete(key) of an entry found expired: DEL removes whatever the
\* key holds by now; false when the cache is unavailable or the client throws.
CacheLazyDelete(r) ==
  /\ req[r].pc = "expire"
  /\ store' = IF CacheUnavailable \/ ~redisUp THEN store
              ELSE {e \in store : e.key # req[r].key}
  /\ req' = [req EXCEPT ![r].pc = "send"]
  /\ UNCHANGED <<now, started, cacheVars, dbVars, history, users, patternVars,
                 direct, frontVars, surfaceVars>>

\* AiSend joining a call already in flight for the same key
AiSendSingleFlight(r) ==
  /\ req[r].pc = "send"
  /\ IF RewriteGuard(req[r].message) # NoError
       THEN Fail(r, RewriteGuard(req[r].message))
     ELSE IF \E q \in Reqs : q # r /\ req[q].pc = "await" /\ req[q].key = req[r].key
       THEN req' = [req EXCEPT ![r].pc = "await"]
     ELSE req' = [req EXCEPT ![r].pc = "await", ![r].sent = @ + 1]
  /\ UNCHANGED <<now, started, cacheVars, store, dbVars, history, users,
                 patternVars, direct, frontVars, surfaceVars>>

\* geminiService.rewriteMessage up to the await of axios.post
AiSend(r) ==
  /\ req[r].pc = "send"
  /\ IF RewriteGuard(req[r].message) # NoError
       THEN Fail(r, RewriteGuard(req[r].message))
       ELSE req' = [req EXCEPT ![r].pc = "await", ![r].sent = @ + 1]
  /\ UNCHANGED <<now, started, cacheVars, store, dbVars, history, users,
                 patternVars, direct, frontVars, surfaceVars>>

\* AiReply sending the call once more after a first failure
AiReplyRetry(r, replies) ==
  /\ req[r].pc = "await"
  /\ \E reply \in replies :
       IF rewriteError(reply) # NoError
         THEN IF req[r].sent < 2
                THEN req' = [req EXCEPT ![r].sent = @ + 1]
                ELSE req' = [req EXCEPT
                       ![r].pc = "done", ![r].reply = reply,
                       ![r].response = errorHandler(rewriteError(reply))]
         ELSE req' = [req EXCEPT ![r].pc = "store", ![r].replied = TRUE,
                        ![r].reply = reply,
                        ![r].payload = reply.payload,
                        ![r].result = parseGeminiResponse(reply.payload)]
  /\ UNCHANGED <<now, started, cacheVars, store, dbVars, history, users,
                 patternVars, direct, frontVars, surfaceVars>>

\* The endpoint answers (or fails to): callGeminiAPI and parseGeminiResponse.
AiReply(r, replies) ==
  /\ req[r].pc = "await"
  /\ \E reply \in replies :
       IF rewriteError(reply) # NoError
         THEN req' = [req EXCEPT
                ![r].pc = "done", ![r].reply = reply,
                ![r].response = errorHandler(rewriteError(reply))]
         ELSE req' = [req EXCEPT ![r].pc = "store", ![r].replied = TRUE,
                        ![r].reply = reply,
                        ![r].payload = reply.payload,
                        ![r].result = parseGeminiResponse(reply.payload)]
  /\ UNCHANGED <<now, started, cacheVars, store, dbVars, history, users,
                 patternVars, direct, frontVars, surfaceVars>>

\* await cacheService.set(cacheKey, aiResult, 300)
CacheSet(r) ==
  /\ req[r].pc = "store"
  /\ IF CacheUnavailable \/ ~redisUp
       THEN /\ store' = store
            /\ req' = [req EXCEPT ![r].pc = "save"]
       ELSE /\ store' = {e \in store : e.key # req[r].key}
                        \cup {CacheEntry(req[r].key, req[r].result, now,
                                         RewriteTtl, r)}
            /\ req' = [req EXCEPT ![r].pc = "save",
                                  ![r].wrote = @ \cup {"cache"}]
  /\ UNCHANGED <<now, started, cacheVars, dbVars, history, users, patternVars,
                 direct, frontVars, surfaceVars>>

\* req.user?.id || userId: the user a request is attributed to
Attributed(r) == IF req[r].user # None THEN req[r].user ELSE req[r].userId

\* new RewriteHistory({...}) of the cache-miss path
HistoryRecord(r) ==
  [request |-> r, user_id |-> Attributed(r), original_message |-> req[r].message,
   safe_version |-> req[r].result.safe, region |-> req[r].region,
   created_at |-> now, cached |-> FALSE,
   red_flags_fixed |-> req[r].result.rff, ndiff |-> req[r].result.ndiff]

\* HistorySave taking the cache entry back when the save fails
HistorySaveEvicting(r) ==
  /\ req[r].pc = "save"
  /\ IF HistorySaveError(HistoryRecord(r)) # NoError
       THEN /\ Fail(r, HistorySaveError(HistoryRecord(r)))
            /\ history' = history
            /\ store' = {e \in store : e.key # req[r].key}
     ELSE IF ~dbUp
       THEN /\ Fail(r, MongoDownError)
            /\ history' = history
            /\ store' = {e \in store : e.key # req[r].key}
     ELSE /\ history' = history \cup {HistoryRecord(r)}
          /\ store' = store
          /\ req' = [req EXCEPT
               ![r].pc = IF req[r].user # None THEN "usage" ELSE "learn",
               ![r].wrote = @ \cup {"history"}]
  /\ UNCHANGED <<now, started, cacheVars, dbVars, users, patternVars,
                 direct, frontVars, surfaceVars>>

\* await historyRecord.save()
HistorySave(r) ==
  /\ req[r].pc = "save"
  /\ IF HistorySaveError(HistoryRecord(r)) # NoError
       THEN Fail(r, HistorySaveError(HistoryRecord(r))) /\ history' = history
     ELSE IF ~dbUp
       THEN Fail(r, MongoDownError) /\ history' = history
     ELSE /\ history' = history \cup {HistoryRecord(r)}
          /\ req' = [req EXCEPT
               ![r].pc = IF req[r].user # None THEN "usage" ELSE "learn",
               ![r].wrote = @ \cup {"history"}]
  /\ UNCHANGED <<now, started, cacheVars, store, dbVars, users, patternVars,
                 direct, frontVars, surfaceVars>>

\* await req.user.incrementUsage(): usage_count += 1 on the document the
\* request holds, then save().  On the hit path the response follows.
IncrementUsage(r) ==
  /\ req[r].pc = "usage"
  /\ IF ~dbUp
       THEN Fail(r, MongoDownError) /\ users' = users
       ELSE /\ users' = [users EXCEPT ![req[r].user] = req[r].userCount + 1]
            /\ req' = [req EXCEPT
                 ![r].userCount = @ + 1,
                 ![r].wrote = @ \cup {"usage"},
                 ![r].pc = IF req[r].hit THEN "done" ELSE "learn",
                 ![r].response = IF req[r].hit
                                   THEN SuccessResponse(req[r].result, TRUE)
                                   ELSE @]
  /\ UNCHANGED <<now, started, cacheVars, store, dbVars, history, patternVars,
                 direct, frontVars, surfaceVars>>

\* The keywords of categorizeMessage that message.toLowerCase() includes: the
\* text called "click" reads 'Click http://x.io immediately', "win" reads
\* 'You win', the others hold none.
KeywordsIn(m) ==
  IF m.body = "click" THEN {"click", "http", "immediately"}
  ELSE IF m.body = "win" THEN {"win"}
  ELSE {}

\* private static categorizeMessage(message)
categorizeMessage(m) ==
  IF KeywordsIn(m) \cap {"click", "http"} # {} THEN "fake_links"
  ELSE IF KeywordsIn(m) \cap {"urgent", "immediately"} # {} THEN "urgent_payment"
  ELSE IF KeywordsIn(m) \cap {"password", "pin"} # {} THEN "personal_info"
  ELSE IF KeywordsIn(m) \cap {"bank", "account"} # {} THEN "fake_authority"
  ELSE IF KeywordsIn(m) \cap {"free", "win"} # {} THEN "too_good_to_be_true"
  ELSE "other"

\* private static assessSeverity(redFlags)
assessSeverity(redFlags) ==
  IF redFlags >= CriticalFlags THEN "critical"
  ELSE IF redFlags >= HighFlags THEN "high"
  ELSE IF redFlags >= MediumFlags THEN "medium"
  ELSE "low"

\* await ScamPattern.findOrCreatePattern(message, this.categorizeMessage(message),
\* this.assessSeverity(...)) and the response of the miss path.  The arguments
\* are evaluated first: with `this` undefined that throws.
LearnPattern(r) ==
  /\ req[r].pc = "learn"
  /\ IF HandlerThis = "undefined"
       THEN Fail(r, UndefinedThisError) /\ patterns' = patterns
     ELSE IF ~dbUp
       THEN Fail(r, MongoDownError) /\ patterns' = patterns
     ELSE /\ patterns' = Upserted(PatternText(req[r].message.body, 1),
                                  categorizeMessage(req[r].message),
                                  assessSeverity(req[r].result.rff))
          /\ req' = [req EXCEPT
               ![r].pc = "done",
               ![r].wrote = @ \cup {"pattern"},
               ![r].response = SuccessResponse(req[r].result, FALSE)]
  /\ UNCHANGED <<now, started, cacheVars, store, dbVars, history, users,
                 pcall, pstats, direct, frontVars, surfaceVars>>

\* created_at < cutoffDate, where cutoffDate is daysToKeep days before t
\* (written with a division: daysToKeep * MsPerDay exceeds 32 bits)
BeforeCutoff(created_at, t, daysToKeep) ==
  \/ (t - created_at) \div MsPerDay > daysToKeep
  \/ /\ (t - created_at) \div MsPerDay = daysToKeep
     /\ (t - created_at) % MsPerDay > 0

\* RewriteHistory.cleanupOldRecords(daysToKeep) and Database.cleanup:
\* deleteMany({created_at: {$lt: cutoffDate}})
CleanupOldRecords ==
  /\ dbUp
  /\ \E daysToKeep \in {0, DefaultDaysToKeep} :
       history' = {h \in history : ~BeforeCutoff(h.created_at, now, daysToKeep)}
  /\ history' # history
  /\ UNCHANGED <<now, started, cacheVars, store, dbVars, users, patternVars, req,
                 direct, frontVars, surfaceVars>>

\* body.userId in the concurrent pipeline specifications: absent
PipelineUserIds == {None}

Rewrite(r, messages, regions, replies) ==
  \/ Arrive(r, messages, regions, PipelineUserIds)
  \/ CacheGet(r)
  \/ CacheLazyDelete(r)
  \/ AiSend(r)
  \/ AiReply(r, replies)
  \/ CacheSet(r)
  \/ HistorySave(r)
  \/ IncrementUsage(r)
  \/ LearnPattern(r)

\* The pipeline under a running clock, with Redis and MongoDB reachable.
Next ==
  \/ StartServer
  \/ Tick(TickMs)
  \/ RedisExpire
  \/ CleanupOldRecords
  \/ \E r \in Reqs : Rewrite(r, PipelineMessages, PipelineRegions, PipelineReplies)

Spec == Init /\ [][Next]_vars

\* The answers of the endpoint tried while the stores fail.
FaultReplies == {OkReply(GoodPayloadA), NetworkReply}

\* The pipeline while Redis and MongoDB come and go; the clock moves in one
\* step past the TTL of an entry.
NextFaults ==
  \/ StartServer
  \/ Tick(MaxTicks * TickMs)
  \/ RedisFail
  \/ RedisRecover
  \/ OnClientError
  \/ OnClientConnect
  \/ DbFail
  \/ DbRecover
  \/ \E r \in Reqs : Rewrite(r, PipelineMessages, PipelineRegions, FaultReplies)

SpecFaults == Init /\ [][NextFaults]_vars

(***************************************************************************)
(* geminiService.rewriteMessage called with an arbitrary argument          *)
(***************************************************************************)
DirectRewrite(messages) ==
  /\ direct.pc = "new"
  /\ \E m \in messages :
       IF RewriteGuard(m) # NoError
         THEN direct' = [direct EXCEPT !.pc = "done", !.input = m, !.threw = TRUE]
         ELSE direct' = [direct EXCEPT !.pc = "await", !.input = m, !.sent = @ + 1]
  /\ UNCHANGED <<now, started, cacheVars, store, dbVars, history, users,
                 patternVars, req, frontVars, surfaceVars>>

DirectReply(replies) ==
  /\ direct.pc = "await"
  /\ \E reply \in replies :
       direct' = [direct EXCEPT
         !.pc = "done",
         !.threw = rewriteError(reply) # NoError,
         !.result = IF rewriteError(reply) # NoError THEN NoResult
                    ELSE parseGeminiResponse(reply.payload)]
  /\ UNCHANGED <<now, started, cacheVars, store, dbVars, history, users,
                 patternVars, req, frontVars, surfaceVars>>

(***************************************************************************)
(* POST /api/gemini/analyze (Next.js)                                      *)
(***************************************************************************)
MaxRequestsPerMinute == 10   \* maxRequestsPerMinute: 10
RateWindowMs == 60000        \* resetTime: Date.now() + 60000
CacheDurationMs == 300000    \* CACHE_DURATION = 5 * 60 * 1000
HalfWord == 65536            \* 2^16: half of the 32-bit integer of hash & hash
HashRadix == 36              \* hash.toString(36)

\* route.ts: the three checks that answer 400
RouteRejects(m) ==
  \/ ~IsString(m) \/ m.len = 0
  \/ Trim(m).len = 0
  \/ m.len > NextMaxLength

\* message.charCodeAt(i) for the messages whose text is spelled out
CharCodes(body) ==
  CASE body = "Aa" -> <<65, 97>>
    [] body = "BB" -> <<66, 66>>
    [] body = "payment" -> <<112, 97, 121, 109, 101, 110, 116>>
    [] OTHER -> <<>>

Spelled(m) ==
  IsString(m) /\ CharCodes(m.body) # <<>> /\ Len(CharCodes(m.body)) = m.len

\* hash = ((hash << 5) - hash) + char; hash = hash & hash: 31 * hash + char
\* kept to 32 bits, the word held as two 16-bit halves
HashStep(h, char) ==
  LET lo == 31 * h.lo + char
      hi == 31 * h.hi + (lo \div HalfWord)
  IN [hi |-> hi % HalfWord, lo |-> lo % HalfWord]

RECURSIVE HashFrom(_, _, _)
HashFrom(codes, i, h) ==
  IF i > Len(codes) THEN h ELSE HashFrom(codes, i + 1, HashStep(h, codes[i]))

\* The 32-bit word read as a signed integer
Int32(h) ==
  IF h.hi >= HalfWord \div 2 THEN (h.hi - HalfWord) * HalfWord + h.lo
  ELSE h.hi * HalfWord + h.lo

RECURSIVE Digits36(_)
Digits36(n) ==
  IF n < HashRadix THEN <<n>> ELSE Digits36(n \div HashRadix) \o <<n % HashRadix>>

\* Number.prototype.toString(36): the sign and the digits
ToString36(n) ==
  IF n < 0 THEN [minus |-> TRUE, digits |-> Digits36(0 - n)]
  ELSE [minus |-> FALSE, digits |-> Digits36(n)]

\* generateMessageHash: computed from the characters where the text is
\* spelled out; for the other messages one hash per text
generateMessageHash(m) ==
  IF Spelled(m)
    THEN [text |-> MissingMsg,
          hash |-> ToString36(Int32(HashFrom(CharCodes(m.body), 1, [hi |-> 0, lo |-> 0])))]
  ELSE [text |-> m, hash |-> ToString36(0)]

\* isCacheValid
isCacheValid(cached, t) == t - cached.timestamp < CacheDurationMs

\* getGeminiService(): the instance, built on first use
FrontInstance ==
  IF front.created THEN front
  ELSE [NoFront EXCEPT !.created = TRUE, !.resetTime = now + RateWindowMs]

\* checkRateLimit, the state it leaves behind
AfterRateCheck(f) ==
  LET g == IF now > f.resetTime
             THEN [f EXCEPT !.requests = 0, !.resetTime = now + RateWindowMs,
                            !.isLimited = FALSE]
             ELSE f
  IN IF g.requests >= MaxRequestsPerMinute
       THEN [g EXCEPT !.isLimited = TRUE]
       ELSE g

\* checkRateLimit, its return value
checkRateLimit(f) == AfterRateCheck(f).requests < MaxRequestsPerMinute

\* The HTTP status route.ts gives a GeminiError code
GeminiErrorStatus(code) ==
  IF code = "RATE_LIMIT" THEN 429
  ELSE IF code = "INVALID_KEY" THEN 401
  ELSE IF code = "QUOTA_EXCEEDED" THEN 429
  ELSE 500

\* makeAPICall and the catch of analyzeMessage: the GeminiError code for a
\* reply, None when the parsed response is returned
makeAPICallError(reply) ==
  IF reply.kind = "http" THEN
    IF reply.status = 429 THEN "RATE_LIMIT"
    ELSE IF reply.status = 400 THEN "INVALID_KEY"
    ELSE "API_ERROR"
  ELSE IF reply.kind = "network" THEN "NETWORK_ERROR"
  ELSE IF ~reply.envelope THEN "API_ERROR"
  ELSE IF reply.payload.json # "object" THEN "PARSE_ERROR"
  ELSE IF reply.payload.orig = "" \/ reply.payload.safe = "" THEN "PARSE_ERROR"
  ELSE None

\* POST up to the await of fetch
NextPost(c, messages) ==
  /\ fcall[c].pc = "new"
  /\ IF c = 1 THEN TRUE ELSE fcall[c - 1].pc # "new"
  /\ \E m \in messages :
       IF RouteRejects(m)
         THEN /\ fcall' = [fcall EXCEPT ![c].pc = "done", ![c].input = m, ![c].at = now,
                                        ![c].status = 400]
              /\ front' = front
       ELSE IF ~checkRateLimit(FrontInstance)
         THEN /\ fcall' = [fcall EXCEPT ![c].pc = "done", ![c].input = m, ![c].at = now,
                                        ![c].status = GeminiErrorStatus("RATE_LIMIT"),
                                        ![c].code = "RATE_LIMIT"]
              /\ front' = AfterRateCheck(FrontInstance)
       ELSE IF \E e \in FrontInstance.cache :
                 e.messageHash = generateMessageHash(m) /\ isCacheValid(e, now)
         THEN /\ fcall' = [fcall EXCEPT ![c].pc = "done", ![c].input = m, ![c].at = now,
                                        ![c].status = 200, ![c].cached = TRUE]
              /\ front' = AfterRateCheck(FrontInstance)
       ELSE /\ fcall' = [fcall EXCEPT ![c].pc = "fetch", ![c].input = m, ![c].at = now,
                                      ![c].sent = @ + 1]
            /\ front' = AfterRateCheck(FrontInstance)
  /\ UNCHANGED <<now, started, cacheVars, store, dbVars, history, users,
                 patternVars, req, direct, surfaceVars,
                 hook, hcall>>

\* fetch settles: makeAPICall, incrementRateLimit, cache.set, the response
NextReply(c, replies) ==
  /\ fcall[c].pc = "fetch"
  /\ \E reply \in replies :
       IF makeAPICallError(reply) # None
         THEN /\ fcall' = [fcall EXCEPT
                   ![c].pc = "done",
                   ![c].status = GeminiErrorStatus(makeAPICallError(reply)),
                   ![c].code = makeAPICallError(reply)]
              /\ front' = front
         ELSE /\ fcall' = [fcall EXCEPT ![c].pc = "done", ![c].status = 200]
              /\ front' = [front EXCEPT
                   !.requests = @ + 1,
                   !.cache = {e \in @ : e.messageHash #
                                          generateMessageHash(fcall[c].input)}
                             \cup {[messageHash |-> generateMessageHash(fcall[c].input),
                                    data |-> reply.payload,
                                    timestamp |-> now]}]
  /\ UNCHANGED <<now, started, cacheVars, store, dbVars, history, users,
                 patternVars, req, direct, surfaceVars,
                 hook, hcall>>

(***************************************************************************)
(* The three ways a message reaches an AI gateway, one per behaviour: the  *)
(* Express server and the Next.js server share no state.                   *)
(***************************************************************************)
RouteQuiet == ~started
DirectQuiet == direct.pc = "new"
FrontQuiet == \A c \in FrontCalls : fcall[c].pc = "new"

RouteTurn == DirectQuiet /\ FrontQuiet
DirectTurn == RouteQuiet /\ FrontQuiet
FrontTurn == RouteQuiet /\ DirectQuiet

NextEntry ==
  \/ RouteTurn /\ StartServer
  \/ RouteTurn /\ Arrive(1, MessageInputs, RegionInputs, UserInputs)
  \/ RouteTurn /\ CacheGet(1)
  \/ RouteTurn /\ AiSend(1)
  \/ RouteTurn /\ AiReply(1, UpstreamReplies)
  \/ RouteTurn /\ CacheSet(1)
  \/ RouteTurn /\ HistorySave(1)
  \/ RouteTurn /\ IncrementUsage(1)
  \/ RouteTurn /\ LearnPattern(1)
  \/ DirectTurn /\ DirectRewrite(MessageInputs)
  \/ DirectTurn /\ DirectReply(UpstreamReplies)
  \/ FrontTurn /\ \E c \in FrontCalls : NextPost(c, MessageInputs)
  \/ FrontTurn /\ \E c \in FrontCalls : NextReply(c, UpstreamReplies)

SpecEntry == Init /\ [][NextEntry]_vars

(***************************************************************************)
(* Callers of the ScamPattern model: findOrCreatePattern (reportPattern,   *)
(* rewriteMessage), and incrementFrequency and addExample on a document    *)
(* obtained with findByHash.                                               *)
(***************************************************************************)

\* The texts a call may bring: each text already among the examples, and the
\* first text not yet among them (texts are interchangeable).
NextTexts ==
  LET n == Len(findByHash(PatternNorm).examples) + 1
  IN {PatternText(PatternNorm, v) : v \in 1..(IF n < MaxVariants THEN n ELSE MaxVariants)}

\* await this.findByHash(patternHash): the caller now holds what it found.
PatternFind(c, ops) ==
  /\ pcall[c].pc = "idle"
  /\ pstats.calls < MaxPatternOps
  /\ \E op \in ops, text \in NextTexts :
       /\ op # "upsert" => findByHash(generatePatternHash(text)) # NoPattern
       /\ pcall' = [pcall EXCEPT ![c] =
            [pc |-> "found", op |-> op, text |-> text,
             doc |-> findByHash(generatePatternHash(text))]]
  /\ pstats' = [pstats EXCEPT !.calls = @ + 1]
  /\ UNCHANGED <<now, started, cacheVars, store, dbVars, history, users,
                 patterns, req, direct, frontVars, surfaceVars>>

\* The rest of the call: the method changes the held document and save()
\* writes it; a save of a new document whose pattern_hash is already stored
\* is rejected by the unique index (E11000).
PatternSave(c) ==
  /\ pcall[c].pc = "found"
  /\ pcall' = [pcall EXCEPT ![c] = IdleCaller]
  /\ IF pcall[c].op = "upsert" /\ pcall[c].doc = NoPattern
       THEN IF findByHash(generatePatternHash(pcall[c].text)) # NoPattern
              THEN /\ patterns' = patterns
                   /\ pstats' = [pstats EXCEPT !.failed = @ + 1]
              ELSE /\ patterns' = Saved(NewPattern(pcall[c].text, "other",
                                                   "medium"))
                   /\ pstats' = [pstats EXCEPT !.upserts = @ + 1, !.lastAt = now]
     ELSE IF pcall[c].op = "upsert"
       THEN /\ patterns' = Saved(incrementFrequency(pcall[c].doc))
            /\ pstats' = [pstats EXCEPT !.upserts = @ + 1, !.lastAt = now]
     ELSE IF pcall[c].op = "increment"
       THEN /\ patterns' = Saved(incrementFrequency(pcall[c].doc))
            /\ pstats' = [pstats EXCEPT !.increments = @ + 1, !.lastAt = now]
     ELSE /\ patterns' = Saved(addExample(pcall[c].doc, pcall[c].text))
          /\ pstats' = pstats
  /\ UNCHANGED <<now, started, cacheVars, store, dbVars, history, users,
                 req, direct, frontVars, surfaceVars>>

AllIdle == \A c \in PatternCallers : pcall[c].pc = "idle"

\* One call of the pattern model at a time.
NextPatternsSeq ==
  \/ Tick(TickMs)
  \/ \E c \in PatternCallers : AllIdle /\ PatternFind(c, PatternOps)
  \/ \E c \in PatternCallers : PatternSave(c)

SpecPatternsSeq == Init /\ [][NextPatternsSeq]_vars

\* Concurrent findOrCreatePattern calls for one message.
NextPatterns ==
  \/ Tick(TickMs)
  \/ \E c \in PatternCallers : PatternFind(c, {"upsert"})
  \/ \E c \in PatternCallers : PatternSave(c)

SpecPatterns == Init /\ [][NextPatterns]_vars

\* The pipeline for one message, with and without req.user and body.userId.
NextUsage ==
  \/ StartServer
  \/ \E r \in Reqs : Arrive(r, {PayPaddedMsg}, {"absent"}, UserInputs)
  \/ \E r \in Reqs : CacheGet(r)
  \/ \E r \in Reqs : AiSend(r)
  \/ \E r \in Reqs : AiReply(r, {OkReply(GoodPayloadA)})
  \/ \E r \in Reqs : CacheSet(r)
  \/ \E r \in Reqs : HistorySave(r)
  \/ \E r \in Reqs : IncrementUsage(r)
  \/ \E r \in Reqs : LearnPattern(r)

SpecUsage == Init /\ [][NextUsage]_vars

(***************************************************************************)
(* The middleware chain of app.ts and communicationRoutes.ts, one request  *)
(* at a time from one IP address.                                          *)
(***************************************************************************)
\* The answer ends the request.
Respond(response, body) ==
  web' = [web EXCEPT !.pc = "done", !.response = response, !.body = body]

\* A request arrives; GET requests carry no body.
WebReceive(maxReqs, routes, jsons, larges, userIds, valids, limits) ==
  /\ web.pc \in {"idle", "done"}
  /\ web.n < maxReqs
  /\ \E route \in routes, json \in jsons, large \in larges,
        user \in userIds, valid \in valids, limit \in limits :
       /\ MethodOf(route) = "GET" => (json /\ ~large)
       /\ route \in {"trending", "unknown"} => valid
       /\ route # "trending" => limit = DefaultLimit
       /\ web' = [NoWebRequest EXCEPT
            !.pc = "contentType", !.n = web.n + 1, !.route = route,
            !.json = json, !.large = large, !.user = user, !.valid = valid,
            !.limit = limit]
  /\ UNCHANGED <<now, started, cacheVars, store, dbVars, history, users,
                 patternVars, req, direct, frontVars, proc, hits, passed>>

\* validateContentType()
WebContentType ==
  /\ web.pc = "contentType"
  /\ IF MethodOf(web.route) # "GET" /\ ~web.json
       THEN Respond(ErrorResponse(400, "INVALID_CONTENT_TYPE"), None)
       ELSE web' = [web EXCEPT !.pc = "size"]
  /\ UNCHANGED <<now, started, cacheVars, store, dbVars, history, users,
                 patternVars, req, direct, frontVars, proc, hits, passed>>

\* validateRequestSize(10 * 1024 * 1024)
WebRequestSize ==
  /\ web.pc = "size"
  /\ IF web.large
       THEN Respond(ErrorResponse(413, "REQUEST_TOO_LARGE"), None)
       ELSE web' = [web EXCEPT !.pc = "general"]
  /\ UNCHANGED <<now, started, cacheVars, store, dbVars, history, users,
                 patternVars, req, direct, frontVars, proc, hits, passed>>

\* Limit with a limiter that lets one request more through
LimitLate(limiter, nextPc) ==
  /\ hits' = [hits EXCEPT ![KeyOf(limiter, web.user)] = @ + 1]
  /\ IF hits[KeyOf(limiter, web.user)] > MaxOf(limiter)
       THEN /\ Respond(RateLimitResponse(limiter), None)
            /\ passed' = passed
       ELSE /\ web' = [web EXCEPT !.pc = nextPc]
            /\ passed' = [passed EXCEPT ![KeyOf(limiter, web.user)] = @ + 1]

\* A limiter of express-rate-limit: count the hit, answer with the handler
\* when the count exceeds max, hand on to nextPc otherwise.
Limit(limiter, nextPc) ==
  /\ hits' = [hits EXCEPT ![KeyOf(limiter, web.user)] = @ + 1]
  /\ IF hits[KeyOf(limiter, web.user)] + 1 > MaxOf(limiter)
       THEN /\ Respond(RateLimitResponse(limiter), None)
            /\ passed' = passed
       ELSE /\ web' = [web EXCEPT !.pc = nextPc]
            /\ passed' = [passed EXCEPT ![KeyOf(limiter, web.user)] = @ + 1]

\* app.use(generalRateLimit)
WebGeneralLimit ==
  /\ web.pc = "general"
  /\ IF SkipsGeneralLimit(web.route)
       THEN web' = [web EXCEPT !.pc = "route"] /\ UNCHANGED <<hits, passed>>
       ELSE Limit("general", "route")
  /\ UNCHANGED <<now, started, cacheVars, store, dbVars, history, users,
                 patternVars, req, direct, frontVars, proc>>

\* app.use('/api', communicationRoutes), then app.use(notFoundHandler)
WebRoute ==
  /\ web.pc = "route"
  /\ IF web.route = "unknown"
       THEN Respond(ErrorResponse(404, "ROUTE_NOT_FOUND"), None)
     ELSE IF web.route = "health"
       THEN web' = [web EXCEPT !.pc = "controller", !.reached = TRUE]
     ELSE web' = [web EXCEPT !.pc = "limit"]
  /\ UNCHANGED <<now, started, cacheVars, store, dbVars, history, users,
                 patternVars, req, direct, frontVars, proc, hits, passed>>

\* the limiter of the route
WebRouteLimit ==
  /\ web.pc = "limit"
  /\ Limit(LimiterOf(web.route), "validate")
  /\ UNCHANGED <<now, started, cacheVars, store, dbVars, history, users,
                 patternVars, req, direct, frontVars, proc>>

\* the validators of the route, ending in handleValidationErrors
WebValidate ==
  /\ web.pc = "validate"
  /\ IF ~web.valid
       THEN web' = [web EXCEPT !.pc = "done", !.validated = TRUE,
                               !.response = errorHandler(handleValidationErrors)]
       ELSE web' = [web EXCEPT !.pc = "controller", !.validated = TRUE,
                               !.reached = TRUE]
  /\ UNCHANGED <<now, started, cacheVars, store, dbVars, history, users,
                 patternVars, req, direct, frontVars, proc, hits, passed>>

\* CommunicationController.rewriteMessage for a cache miss with Redis and
\* MongoDB up: the gateway's error, or the error of the pattern step.
WebRewrite ==
  /\ web.pc = "controller" /\ web.route = "rewrite"
  /\ \E reply \in SurfaceReplies :
       IF rewriteError(reply) # NoError
         THEN Respond(errorHandler(rewriteError(reply)), None)
       ELSE IF HandlerThis = "undefined"
         THEN Respond(errorHandler(UndefinedThisError), None)
       ELSE Respond(SuccessResponse(parseGeminiResponse(reply.payload), FALSE),
                    "result")
  /\ UNCHANGED <<now, started, cacheVars, store, dbVars, history, users,
                 patternVars, req, direct, frontVars, proc, hits, passed>>

\* CommunicationController.getHistory
WebHistory ==
  /\ web.pc = "controller" /\ web.route = "history"
  /\ IF web.user = None
       THEN Respond(errorHandler(AuthenticationRequired), None)
       ELSE Respond(SuccessResponse(NoResult, FALSE), "records")
  /\ UNCHANGED <<now, started, cacheVars, store, dbVars, history, users,
                 patternVars, req, direct, frontVars, proc, hits, passed>>

\* CommunicationController.getAnalytics
WebAnalytics ==
  /\ web.pc = "controller" /\ web.route = "analytics"
  /\ Respond(SuccessResponse(NoResult, FALSE), "aggregates")
  /\ UNCHANGED <<now, started, cacheVars, store, dbVars, history, users,
                 patternVars, req, direct, frontVars, proc, hits, passed>>

\* CommunicationController.reportPattern
WebPatterns ==
  /\ web.pc = "controller" /\ web.route = "patterns"
  /\ patterns' = Upserted(PatternText(PatternNorm, 1), "other", "medium")
  /\ Respond(SuccessResponse(NoResult, FALSE), "patternId")
  /\ UNCHANGED <<now, started, cacheVars, store, dbVars, history, users,
                 pcall, pstats, req, direct, frontVars, proc, hits, passed>>

\* CommunicationController.getTrendingPatterns
WebTrending ==
  /\ web.pc = "controller" /\ web.route = "trending"
  /\ web' = [web EXCEPT
       !.pc = "done", !.body = "patterns",
       !.response = SuccessResponse(NoResult, FALSE),
       !.returned = TrendingView(findTrending(web.limit))]
  /\ UNCHANGED <<now, started, cacheVars, store, dbVars, history, users,
                 patternVars, req, direct, frontVars, proc, hits, passed>>

\* The window of a limiter ends: its store forgets every key.
WindowExpire(limiter) ==
  /\ \E k \in LimiterKeys : k[1] = limiter /\ hits[k] > 0
  /\ hits' = [k \in LimiterKeys |-> IF k[1] = limiter THEN 0 ELSE hits[k]]
  /\ passed' = [k \in LimiterKeys |-> IF k[1] = limiter THEN 0 ELSE passed[k]]
  /\ UNCHANGED <<now, started, cacheVars, store, dbVars, history, users,
                 patternVars, req, direct, frontVars, proc, web>>

NextSurface ==
  \/ WebReceive(MaxWebReqs, Routes, BOOLEAN, BOOLEAN, UserInputs, BOOLEAN,
                {DefaultLimit})
  \/ WebContentType
  \/ WebRequestSize
  \/ WebGeneralLimit
  \/ WebRoute
  \/ WebRouteLimit
  \/ WebValidate
  \/ WebRewrite
  \/ WebHistory
  \/ WebAnalytics
  \/ WebPatterns
  \/ WebTrending
  \/ \E limiter \in {"rewrite", "pattern"} : WindowExpire(limiter)

SpecSurface == Init /\ [][NextSurface]_vars

\* The limiters under a longer run of well-formed requests from one IP.
LimitedRoutes == {"rewrite", "patterns", "trending", "unknown"}

NextLimits ==
  \/ WebReceive(MaxLimitReqs, LimitedRoutes, {TRUE}, {FALSE}, {None}, BOOLEAN,
                {DefaultLimit})
  \/ WebContentType
  \/ WebRequestSize
  \/ WebGeneralLimit
  \/ WebRoute
  \/ WebRouteLimit
  \/ WebValidate
  \/ WebRewrite
  \/ WebPatterns
  \/ WebTrending
  \/ \E limiter \in {"general", "rewrite", "pattern"} : WindowExpire(limiter)

SpecLimits == Init /\ [][NextLimits]_vars

\* The trending query over a collection that was filled earlier.
InitTrending ==
  /\ now = 0
  /\ started = FALSE
  /\ client = "null"
  /\ isConnected = FALSE
  /\ redisUp = TRUE
  /\ cacheFaults = 0
  /\ store = {}
  /\ dbUp = TRUE
  /\ dbFaults = 0
  /\ history = {}
  /\ users = [u \in UserIds |-> 0]
  /\ \E size \in 0..MaxStored, idleEvery \in {2, MaxStored + 1} :
       patterns = StoredPatterns(size, idleEvery)
  /\ pcall = [c \in PatternCallers |-> IdleCaller]
  /\ pstats = NoStats
  /\ req = [r \in Reqs |-> NewRequest]
  /\ direct = NewDirect
  /\ front = NoFront
  /\ fcall = [c \in FrontCalls |-> NewFrontCall]
  /\ web = NoWebRequest
  /\ hits = [k \in LimiterKeys |-> 0]
  /\ passed = [k \in LimiterKeys |-> 0]
  /\ proc = NoProcess
  /\ hook = NoHook
  /\ hcall = [k \in HookCalls |-> NewHookCall]

NextTrending ==
  \/ WebReceive(1, {"trending"}, {TRUE}, {FALSE}, {None}, {TRUE}, LimitInputs)
  \/ WebContentType
  \/ WebRequestSize
  \/ WebGeneralLimit
  \/ WebRoute
  \/ WebRouteLimit
  \/ WebValidate
  \/ WebTrending

SpecTrending == InitTrending /\ [][NextTrending]_vars

\* app.get('/api/health'): the services object is written out as literals.
WebHealth ==
  /\ web.pc = "controller" /\ web.route = "health"
  /\ web' = [web EXCEPT
       !.pc = "done", !.body = "health",
       !.response = SuccessResponse(NoResult, FALSE),
       !.services = [database |-> "connected", redis |-> "connected",
                     gemini |-> "available"]]
  /\ UNCHANGED <<now, started, cacheVars, store, dbVars, history, users,
                 patternVars, req, direct, frontVars, proc, hits, passed>>

\* cacheService.getConnectionStatus()
CacheConnectionStatus == isConnected /\ client # "null"

\* Health checks while Redis and MongoDB come and go.
NextHealth ==
  \/ StartServer
  \/ RedisFail
  \/ RedisRecover
  \/ OnClientError
  \/ OnClientConnect
  \/ DbFail
  \/ DbRecover
  \/ started /\ WebReceive(MaxWebReqs, {"health"}, {TRUE}, {FALSE}, {None},
                            {TRUE}, {DefaultLimit})
  \/ WebContentType
  \/ WebRequestSize
  \/ WebGeneralLimit
  \/ WebRoute
  \/ WebHealth

SpecHealth == Init /\ [][NextHealth]_vars

(***************************************************************************)
(* Properties.                                                             *)
(***************************************************************************)
\* A request that has been answered.
Answered(r) == req[r].pc = "done"

\* The entry a lookup of request r finds is younger than the window.
WithinTtl(r) ==
  /\ ~CacheUnavailable /\ redisUp
  /\ EntryOf(req[r].key) # NoEntry
  /\ now - EntryOf(req[r].key).timestamp < RewriteTtl * 1000

\* Request r leaves the program counter at.
Leaves(r, at) == req[r].pc = at /\ req'[r].pc # at

\* C1: once a call has cached its result, a lookup for the same (message,
\* region) made less than 300 s after the entry was written is a hit: the
\* request takes the cached path, carries the very result the gateway gave the
\* writer, sends nothing to the gateway, and is answered with cached = true.
C1_SecondCallWithinTtlIsCached ==
  [][/\ \A r \in Reqs :
       (Leaves(r, "lookup") /\ WithinTtl(r)) =>
         /\ req'[r].hit
         /\ req'[r].sent = 0
         /\ req'[r].result = req[EntryOf(req[r].key).writer].result
         /\ req[EntryOf(req[r].key).writer].replied
         /\ req'[r].pc \in {"usage", "done"}
         /\ req'[r].pc = "done" =>
              req'[r].response = SuccessResponse(req'[r].result, TRUE)
     /\ \A r \in Reqs :
          req'[r].hit =>
            /\ req'[r].sent = 0
            /\ req'[r].response.kind = "success" =>
                 req'[r].response = SuccessResponse(req'[r].result, TRUE)]_vars

C1_Witness ==
  \E r1, r2 \in Reqs :
    /\ r1 # r2
    /\ req[r1].key = req[r2].key
    /\ "cache" \in req[r1].wrote
    /\ req[r1].sent = 1
    /\ Answered(r2) /\ req[r2].hit /\ req[r2].sent = 0
    /\ req[r2].result = req[r1].result
    /\ req[r2].response = SuccessResponse(req[r1].result, TRUE)
    /\ now > 0

\* C2: on a cache miss with a successful gateway call and healthy stores the
\* request is answered with the AI result and cached = false.
C2_MissReturnsResult ==
  \A r \in Reqs :
    ( /\ Answered(r)
      /\ req[r].replied
      /\ {"cache", "history"} \subseteq req[r].wrote
      /\ req[r].sawCache
      /\ req[r].user # None => "usage" \in req[r].wrote )
    => req[r].response = SuccessResponse(req[r].result, FALSE)

\* C3: a request whose gateway call succeeded and whose history record could
\* not be saved is still answered with a success response.
C3_BookkeepingFailureSwallowed ==
  \A r \in Reqs :
    (Answered(r) /\ req[r].replied /\ "history" \notin req[r].wrote)
      => req[r].response.kind = "success"

\* C4: a request sends at most one call to the endpoint; when that call fails
\* the request is answered with an error and has written no cache entry, no
\* history record, no usage increment and no pattern.
C4_OneCallNoWritesOnFailure ==
  \A r \in Reqs :
    /\ req[r].sent <= 1
    /\ (Answered(r) /\ req[r].sent = 1 /\ ~req[r].replied) =>
         /\ req[r].response.kind = "error"
         /\ req[r].wrote = {}
         /\ \A e \in store : e.writer # r
         /\ \A h \in history : h.request # r
         /\ req[r].user # None => req[r].userCount <= users[req[r].user]
         /\ req[r].result = NoResult

C4_Witness ==
  \E r \in Reqs :
    /\ Answered(r) /\ req[r].sent = 1 /\ ~req[r].replied
    /\ req[r].response.kind = "error"

\* A message that is missing, not a string, empty after trimming, or longer
\* than the maximum.
Invalid(m) ==
  \/ ~IsString(m)
  \/ Trim(m).len = 0
  \/ m.len > MaxMessageLength

\* C5: a request whose message is empty after trimming or longer than 1000
\* characters is answered with the code VALIDATION_ERROR.
C5_InvalidGivesValidationError ==
  \A r \in Reqs :
    ( /\ Answered(r)
      /\ IsString(req[r].input)
      /\ Trim(req[r].input).len = 0 \/ req[r].input.len > MaxMessageLength )
    => req[r].response.code = "VALIDATION_ERROR"

C5_Failing ==
  \E r \in Reqs :
    /\ Answered(r)
    /\ req[r].input = BlankMsg
    /\ req[r].response = ErrorResponse(500, "INTERNAL_ERROR")

C7_ExpiredEntryNeverServed ==
  [][\A r \in Reqs :
       /\ (Leaves(r, "lookup") /\ req'[r].hit) =>
            /\ EntryOf(req[r].key) # NoEntry
            /\ now - EntryOf(req[r].key).timestamp
                 <= EntryOf(req[r].key).ttl * 1000
       /\ ( /\ Leaves(r, "lookup")
            /\ EntryOf(req[r].key) # NoEntry
            /\ now - EntryOf(req[r].key).timestamp
                 > EntryOf(req[r].key).ttl * 1000 )
          => /\ req'[r].pc = "expire"
             /\ ~req'[r].hit
             /\ req'[r].result = NoResult
       /\ Leaves(r, "expire") =>
            /\ req'[r].pc = "send"
            /\ \A e \in store' : e.key # req[r].key
       /\ (Leaves(r, "send") /\ ~Invalid(req[r].message)) =>
            /\ req'[r].pc = "await"
            /\ req'[r].sent = req[r].sent + 1]_vars

C7_Witness ==
  \E r1, r2 \in Reqs :
    /\ r1 # r2
    /\ req[r1].key = req[r2].key
    /\ "cache" \in req[r1].wrote
    /\ req[r2].pc = "await"
    /\ req[r2].sawCache /\ ~req[r2].hit /\ req[r2].sent = 1
    /\ now > RewriteTtl * 1000
    /\ \A e \in store : e.key # req[r2].key

\* C8: requests are not merged: every request that missed the cache and got
\* past the input checks has sent its own call to the gateway, whatever other
\* requests for the same key are in flight.
C8_NoSingleFlight ==
  \A r \in Reqs :
    /\ (req[r].pc \in {"await", "store", "save", "learn"}) => req[r].sent = 1
    /\ (req[r].pc = "usage" /\ ~req[r].hit) => req[r].sent = 1
    /\ (req[r].result # NoResult /\ ~req[r].hit) =>
         (req[r].sent = 1 /\ req[r].replied)

C8_Witness ==
  \E r1, r2 \in Reqs :
    /\ r1 # r2
    /\ req[r1].key = req[r2].key
    /\ req[r1].pc = "await" /\ req[r2].pc = "await"
    /\ req[r1].sawCache /\ req[r2].sawCache
    /\ req[r1].sent = 1 /\ req[r2].sent = 1
    /\ store = {}

\* C9: with the cache unavailable at the lookup, a request whose gateway call
\* succeeded and whose history and usage writes went through is answered with
\* the AI result and cached = false.
C9_DegradedCacheStillAnswers ==
  \A r \in Reqs :
    ( /\ Answered(r)
      /\ ~req[r].sawCache
      /\ req[r].replied
      /\ "history" \in req[r].wrote
      /\ req[r].user # None => "usage" \in req[r].wrote )
    => req[r].response = SuccessResponse(req[r].result, FALSE)

\* C10: every request answered with a result has created a history record.
C10_EveryResultHasHistoryRecord ==
  \A r \in Reqs :
    (Answered(r) /\ req[r].response.kind = "success")
      => /\ "history" \in req[r].wrote
         /\ \E h \in history : h.request = r

\* C11: a request attributed to a user that has reached its usage step (a
\* hit answered, or a miss whose history record is saved) has incremented
\* that user's usage_count, and usage_count equals the number of requests
\* that incremented it.
C11_UsageCountedPerRequest ==
  /\ \A r \in Reqs :
       ( /\ Attributed(r) # None
         /\ req[r].pc \in {"learn", "done"}
         /\ req[r].hit \/ "history" \in req[r].wrote )
       => "usage" \in req[r].wrote
  /\ \A u \in UserIds :
       users[u] = Cardinality({r \in Reqs : req[r].user = u
                                            /\ "usage" \in req[r].wrote})

\* C12: with one call of the pattern model at a time, between calls the one
\* pattern of a hash has frequency equal to the number of findOrCreatePattern
\* and incrementFrequency calls made (2 after two upserts), last_seen is the
\* time of the latest of them unless a later addExample moved it on, and at
\* every moment examples holds no text twice and at most 10 texts.
C12_PatternRoundTrip ==
  /\ Cardinality(patterns) <= 1
  /\ pstats.failed = 0
  /\ \A d \in patterns :
       /\ Len(d.examples) <= MaxExamples
       /\ \A i, j \in 1..Len(d.examples) :
            d.examples[i] = d.examples[j] => i = j
       /\ AllIdle =>
            /\ d.frequency = pstats.upserts + pstats.increments
            /\ d.last_seen >= pstats.lastAt
            /\ pstats.calls = pstats.upserts + pstats.increments =>
                 d.last_seen = pstats.lastAt

C12_Witness ==
  /\ AllIdle
  /\ pstats.calls = MaxPatternOps
  /\ pstats.upserts = 2 /\ pstats.increments = 0
  /\ \E d \in patterns :
       /\ d.frequency = 2
       /\ Len(d.examples) = MaxExamples
       /\ d.last_seen > 0

\* C13: once concurrent findOrCreatePattern calls for one message have all
\* returned, none was rejected, one pattern exists, and its frequency is the
\* number of calls.
C13_ConcurrentUpsertsCounted ==
  (AllIdle /\ pstats.calls > 0) =>
    /\ pstats.failed = 0
    /\ Cardinality(patterns) = 1
    /\ \A d \in patterns : d.frequency = pstats.calls

\* C14: red_flags_fixed of every saved history record lies in 0..10, and a
\* result parsed from a payload whose red_flags_fixed is missing or not a
\* number carries the number of differences instead (the payload's own
\* number otherwise).
C14_RedFlagsInRange ==
  /\ \A h \in history : h.red_flags_fixed >= 0 /\ h.red_flags_fixed <= 10
  /\ \A r \in Reqs :
       req[r].replied =>
         req[r].result.rff = IF req[r].payload.rffIsNumber
                               THEN req[r].payload.rff
                               ELSE req[r].payload.ndiff

C14_Witness ==
  \E r \in Reqs :
    /\ req[r].replied
    /\ req[r].payload = NoCountPayload
    /\ \E h \in history :
         h.request = r /\ h.red_flags_fixed = NoCountPayload.ndiff

\* A result with every field parseGeminiResponse insists on.
WellFormed(x) ==
  /\ x.original # "" /\ x.safe # ""
  /\ x.diffsIsArray
  /\ x.tone = "ok"
  /\ x.rffIsNumber

\* C15: every result the backend gateway returns is well formed, and so is
\* every result that is cached, saved to the history or sent in a response;
\* a call whose payload is not well formed returns no result.
C15_OnlyWellFormedResults ==
  /\ \A r \in Reqs :
       /\ req[r].replied =>
            /\ WellFormed(req[r].result)
            /\ ParseFailure(req[r].payload) = NoError
       /\ (~req[r].replied /\ ~req[r].hit) => req[r].result = NoResult
       /\ req[r].response.kind = "success" => WellFormed(req[r].response.data)
  /\ \A e \in store : WellFormed(e.data)
  /\ \A h \in history : WellFormed(req[h.request].result)
  /\ direct.pc = "done" =>
       IF direct.threw THEN direct.result = NoResult
       ELSE WellFormed(direct.result)

C15_Witness ==
  \E r \in Reqs :
    /\ req[r].replied
    /\ {"cache", "history"} \subseteq req[r].wrote
    /\ \E e \in store : e.writer = r /\ WellFormed(e.data)

\* The request got a 200 whose text holds no JSON object, or one that does
\* not deserialize.
Unparseable(r) ==
  /\ req[r].reply.kind = "ok" /\ req[r].reply.envelope
  /\ req[r].reply.payload.json \in {"none", "invalid"}

\* C16: a request whose model response holds no JSON object, or one that does
\* not deserialize, is answered with an error response whose code is
\* AI_SERVICE_ERROR, and has written neither cache nor history.
C16_ParseFailureIsAiServiceError ==
  \A r \in Reqs :
    (req[r].pc = "done" /\ Unparseable(r)) =>
      /\ req[r].response.kind = "error"
      /\ req[r].response.code = "AI_SERVICE_ERROR"
      /\ req[r].wrote = {}

\* C17: a request whose upstream call got no response is answered with the
\* code NETWORK_ERROR, which is not the code of a request whose upstream call
\* got an HTTP error status.
C17_NetworkErrorIsDistinct ==
  \A r \in Reqs :
    (req[r].pc = "done" /\ req[r].reply.kind = "network") =>
      /\ req[r].response.kind = "error"
      /\ req[r].response.code = "NETWORK_ERROR"
      /\ \A status \in UpstreamStatuses :
           errorHandler(callGeminiAPI(HttpReply(status))).code
             # req[r].response.code

\* C18: a request whose upstream call was answered 429 gets an error response
\* with code RATE_LIMIT_EXCEEDED or AI_SERVICE_ERROR that carries a retry-after
\* number of at least 0.
C18_Upstream429CarriesRetryAfter ==
  \A r \in Reqs :
    (req[r].pc = "done" /\ req[r].reply.kind = "http" /\ req[r].reply.status = 429) =>
      /\ req[r].response.kind = "error"
      /\ req[r].response.code \in {"RATE_LIMIT_EXCEEDED", "AI_SERVICE_ERROR"}
      /\ Len(req[r].response.retryAfter) = 1
      /\ req[r].response.retryAfter[1] >= 0

\* C19: every error response of the middleware chain has the members code,
\* message and timestamp, a code of the closed taxonomy and, when its status
\* is 429, a retry-after hint.
C19_ErrorResponsesUniform ==
  (web.pc = "done" /\ web.response.kind = "error") =>
    /\ {"code", "message", "timestamp"} \subseteq web.response.fields
    /\ web.response.code \in
         {"VALIDATION_ERROR", "AUTHENTICATION_ERROR", "AUTHORIZATION_ERROR",
          "RATE_LIMIT_EXCEEDED", "AI_SERVICE_ERROR", "NETWORK_ERROR",
          "DATABASE_SERVICE_ERROR", "CACHE_SERVICE_ERROR", "NOT_FOUND",
          "ROUTE_NOT_FOUND", "INTERNAL_ERROR"}
    /\ web.response.status = 429 => Len(web.response.retryAfter) = 1

\* C20: a history or analytics request without req.user that reaches its
\* controller is answered 401 with the authentication error code and carries
\* neither records nor aggregates.
C20_ProtectedQueriesNeedIdentity ==
  (/\ web.pc = "done"
   /\ web.reached
   /\ web.route \in {"history", "analytics"}
   /\ web.user = None) =>
    /\ web.response.kind = "error"
    /\ web.response.status = 401
    /\ web.response.code = "AUTHENTICATION_ERROR"
    /\ web.body = None

\* C21: in every window the rewrite limiter hands on at most 5 requests of an
\* IP, the pattern limiter at most 3 and the general limiter at most
\* config.rateLimit.max, each on a counter of its own; a request answered by
\* a limiter's handler has reached neither the validators nor the controller.
C21_LimitsPerOperation ==
  /\ passed[<<"rewrite", "ip">>] <= RewriteMax
  /\ passed[<<"pattern", "ip">>] <= PatternMax
  /\ passed[<<"general", "ip">>] <= GeneralMax
  /\ \A limiter \in {"general", "rewrite", "pattern"} :
       (web.pc = "done" /\ web.response = RateLimitResponse(limiter)) =>
         ~web.validated /\ ~web.reached /\ web.body = None

C21_Witness ==
  /\ web.pc = "done"
  /\ web.route = "rewrite"
  /\ web.response = RateLimitResponse("rewrite")
  /\ passed[<<"rewrite", "ip">>] = RewriteMax
  /\ passed[<<"pattern", "ip">>] = PatternMax
  /\ passed[<<"general", "ip">>] < GeneralMax

\* C22: the trending query returns at most 50 patterns whatever limit is
\* asked for (at most 10 when none is), only active ones, in descending order
\* of frequency, each with at most 3 examples.
C22_TrendingBounded ==
  (web.pc = "done" /\ web.route = "trending" /\ web.body = "patterns") =>
    /\ Len(web.returned) <= 50
    /\ web.limit = DefaultLimit => Len(web.returned) <= 10
    /\ \A i \in 1..Len(web.returned) :
         /\ web.returned[i].active
         /\ Len(web.returned[i].examples) <= 3
         /\ i > 1 => web.returned[i - 1].frequency >= web.returned[i].frequency

\* C23: a health response written while MongoDB is unreachable does not say
\* database connected, and one written while the cache service has no
\* connection to Redis does not say redis connected.
C23_HealthReportsReachability ==
  [][WebHealth =>
       /\ ~dbUp => web'.services.database # "connected"
       /\ (~CacheConnectionStatus \/ ~redisUp) =>
            web'.services.redis # "connected"]_vars

\* C24: once a cache-miss request that obtained a result has been answered,
\* the collection holds the pattern of its message, labelled with the
\* category of the first keyword class the message matches and the severity
\* band of the result's red_flags_fixed.
C24_PatternLabelled ==
  \A r \in Reqs :
    (Answered(r) /\ req[r].replied /\ "history" \in req[r].wrote) =>
      \E p \in patterns :
        /\ p.pattern_hash = generatePatternHash(PatternText(req[r].message.body, 1))
        /\ p.category = categorizeMessage(req[r].message)
        /\ p.severity = assessSeverity(req[r].result.rff)

\* C25: the history record of a cache-miss request is saved only after its
\* cache write; the step in which such a request fails after the gateway
\* answered leaves the cache as it is; and a lookup within the window that
\* finds the entry of a writer that failed is a hit, answered with the
\* writer's result and cached = true.
C25_EntryOutlivesFailure ==
  [][\A r \in Reqs :
       /\ ("history" \in req'[r].wrote /\ "history" \notin req[r].wrote) =>
            /\ req[r].pc = "save"
            /\ CacheUnavailable \/ "cache" \in req[r].wrote
       /\ ( /\ req[r].replied
            /\ req[r].pc \in {"save", "usage", "learn"}
            /\ req'[r].pc = "done"
            /\ req'[r].response.kind = "error" ) => store' = store
       /\ ( /\ Leaves(r, "lookup")
            /\ WithinTtl(r)
            /\ Answered(EntryOf(req[r].key).writer)
            /\ req[EntryOf(req[r].key).writer].response.kind = "error" ) =>
            /\ req'[r].hit
            /\ req'[r].pc = "done" =>
                 req'[r].response =
                   SuccessResponse(req[EntryOf(req[r].key).writer].result, TRUE)]_vars

C25_Witness ==
  \E r1, r2 \in Reqs :
    /\ r1 # r2
    /\ Answered(r1) /\ req[r1].replied
    /\ req[r1].response.kind = "error"
    /\ "cache" \in req[r1].wrote /\ "history" \notin req[r1].wrote
    /\ \A h \in history : h.request # r1
    /\ Answered(r2) /\ req[r2].hit
    /\ req[r2].key = req[r1].key
    /\ req[r2].response = SuccessResponse(req[r1].result, TRUE)

(***************************************************************************)
(* Three requests for one message while the clock passes the time to live  *)
(* of an entry.                                                            *)
(***************************************************************************)
ExpiryReqs == 1..MaxExpiryReqs

InitExpiry ==
  /\ now = 0
  /\ started = FALSE
  /\ client = "null"
  /\ isConnected = FALSE
  /\ redisUp = TRUE
  /\ cacheFaults = 0
  /\ store = {}
  /\ dbUp = TRUE
  /\ dbFaults = 0
  /\ history = {}
  /\ users = [u \in UserIds |-> 0]
  /\ patterns = {}
  /\ pcall = [c \in PatternCallers |-> IdleCaller]
  /\ pstats = NoStats
  /\ req = [r \in ExpiryReqs |-> NewRequest]
  /\ direct = NewDirect
  /\ front = NoFront
  /\ fcall = [c \in FrontCalls |-> NewFrontCall]
  /\ web = NoWebRequest
  /\ hits = [k \in LimiterKeys |-> 0]
  /\ passed = [k \in LimiterKeys |-> 0]
  /\ proc = NoProcess
  /\ hook = NoHook
  /\ hcall = [k \in HookCalls |-> NewHookCall]

NextExpiry ==
  \/ StartServer
  \/ Tick(TickMs)
  \/ RedisExpire
  \/ \E r \in ExpiryReqs : Arrive(r, {PayPaddedMsg}, {"absent"}, PipelineUserIds)
  \/ \E r \in ExpiryReqs : CacheGet(r)
  \/ \E r \in ExpiryReqs : CacheLazyDelete(r)
  \/ \E r \in ExpiryReqs : AiSend(r)
  \/ \E r \in ExpiryReqs : AiReply(r, {OkReply(GoodPayloadA), OkReply(GoodPayloadB)})
  \/ \E r \in ExpiryReqs : CacheSet(r)
  \/ \E r \in ExpiryReqs : HistorySave(r)
  \/ \E r \in ExpiryReqs : LearnPattern(r)

SpecExpiry == InitExpiry /\ [][NextExpiry]_vars

\* C26: the lazy delete of a get that read an expired entry removes only
\* expired entries: an entry written by a concurrent set on the same key,
\* still within its time to live, is never removed by it.
C26_LazyDeleteOnlyExpired ==
  [][\A r \in ExpiryReqs :
       Leaves(r, "expire") => \A e \in store \ store' : IsExpired(e, now)]_vars

(***************************************************************************)
(* POST /api/gemini/analyze called more often than maxRequestsPerMinute,   *)
(* up to MaxInFlight of the calls overlapping at the await of fetch.       *)
(***************************************************************************)
BurstCalls == 1..MaxBurstCalls

InitBurst ==
  /\ now = 0
  /\ started = FALSE
  /\ client = "null"
  /\ isConnected = FALSE
  /\ redisUp = TRUE
  /\ cacheFaults = 0
  /\ store = {}
  /\ dbUp = TRUE
  /\ dbFaults = 0
  /\ history = {}
  /\ users = [u \in UserIds |-> 0]
  /\ patterns = {}
  /\ pcall = [c \in PatternCallers |-> IdleCaller]
  /\ pstats = NoStats
  /\ req = [r \in Reqs |-> NewRequest]
  /\ direct = NewDirect
  /\ front = NoFront
  /\ fcall = [c \in BurstCalls |-> NewFrontCall]
  /\ web = NoWebRequest
  /\ hits = [k \in LimiterKeys |-> 0]
  /\ passed = [k \in LimiterKeys |-> 0]
  /\ proc = NoProcess
  /\ hook = NoHook
  /\ hcall = [k \in HookCalls |-> NewHookCall]

BurstReplies == {OkReply(GoodPayloadA), NetworkReply}

\* analyzeMessage called while fewer than MaxInFlight calls await fetch
BurstPost ==
  /\ Cardinality({c \in BurstCalls : fcall[c].pc = "fetch"}) < MaxInFlight
  /\ \E c \in BurstCalls : NextPost(c, {PayMsg})

\* The clock moves in one step past the window and the cache duration.
NextBurst ==
  \/ Tick(MaxTicks * TickMs)
  \/ BurstPost
  \/ \E c \in BurstCalls : NextReply(c, BurstReplies)

SpecBurst == InitBurst /\ [][NextBurst]_vars

\* The calls that started an upstream request in the current window of the
\* instance, which ends at resetTime.
StartedInWindow ==
  {c \in BurstCalls : /\ fcall[c].sent > 0
                      /\ fcall[c].at >= front.resetTime - RateWindowMs
                      /\ fcall[c].at <= front.resetTime}

\* C27: the frontend service never starts more than maxRequestsPerMinute
\* upstream calls within one rate-limit window, whether the calls overlap
\* or not and whether they succeed or fail.
C27_AtMostTenPerWindow ==
  front.created => Cardinality(StartedInWindow) <= MaxRequestsPerMinute

(***************************************************************************)
(* POST /api/gemini/analyze with messages whose hash is computed.          *)
(***************************************************************************)
CollideReplies == {OkReply(GoodPayloadA), OkReply(GoodPayloadB), NetworkReply}

NextCollide ==
  \/ Tick(TickMs)
  \/ \E c \in FrontCalls : NextPost(c, SpelledMessages)
  \/ \E c \in FrontCalls : NextReply(c, CollideReplies)

SpecCollide == Init /\ [][NextCollide]_vars

\* C28: a call answered from the cache of the frontend service is answered
\* with a response produced for its own message: another call with the same
\* message was sent upstream and succeeded.
C28_CachedForSameMessage ==
  \A c \in FrontCalls :
    fcall[c].cached =>
      \E d \in FrontCalls :
        /\ d # c
        /\ fcall[d].input = fcall[c].input
        /\ fcall[d].sent > 0 /\ fcall[d].status = 200

(***************************************************************************)
(* useSafeRewriter: rewriteMessage, clearError and reset, called in any    *)
(* order; a call of rewriteMessage may begin while another awaits.         *)
(***************************************************************************)
\* scamMessage: string
HookMessages == {BlankMsg, PayMsg}

\* callGeminiAI resolves with the converted response or throws
HookOutcomes == {"resolved", "rejected"}

\* rewriteMessage up to the await of callGeminiAI
HookRewrite(k, messages) ==
  /\ hcall[k].pc = "new"
  /\ IF k = 1 THEN TRUE ELSE hcall[k - 1].pc # "new"
  /\ \E m \in messages :
       IF Trim(m).len = 0
         THEN /\ hook' = [hook EXCEPT !.error = "VALIDATION_ERROR"]
              /\ hcall' = [hcall EXCEPT ![k].pc = "done", ![k].message = m]
       ELSE /\ hook' = [isLoading |-> TRUE, error |-> None, result |-> None]
            /\ hcall' = [hcall EXCEPT ![k].pc = "await", ![k].message = m]
  /\ UNCHANGED <<now, started, cacheVars, store, dbVars, history, users,
                 patternVars, req, direct, front, fcall, surfaceVars>>

\* callGeminiAI settles: setResult or setError, then finally setIsLoading(false)
HookSettle(k, outcomes) ==
  /\ hcall[k].pc = "await"
  /\ \E outcome \in outcomes :
       hook' = IF outcome = "resolved"
                 THEN [hook EXCEPT !.result = "response",
                                   !.isLoading = FALSE]
               ELSE [hook EXCEPT !.error = "API_ERROR", !.isLoading = FALSE]
  /\ hcall' = [hcall EXCEPT ![k].pc = "done"]
  /\ UNCHANGED <<now, started, cacheVars, store, dbVars, history, users,
                 patternVars, req, direct, front, fcall, surfaceVars>>

\* clearError
HookClearError ==
  /\ hook' = [hook EXCEPT !.error = None]
  /\ UNCHANGED <<now, started, cacheVars, store, dbVars, history, users,
                 patternVars, req, direct, front, fcall, hcall, surfaceVars>>

\* reset
HookReset ==
  /\ hook' = NoHook
  /\ UNCHANGED <<now, started, cacheVars, store, dbVars, history, users,
                 patternVars, req, direct, front, fcall, hcall, surfaceVars>>

NextHook ==
  \/ \E k \in HookCalls : HookRewrite(k, HookMessages)
  \/ \E k \in HookCalls : HookSettle(k, HookOutcomes)
  \/ HookClearError
  \/ HookReset

SpecHook == Init /\ [][NextHook]_vars

\* C29: in the useSafeRewriter hook error and result are never both set, and
\* isLoading is true whenever a call of rewriteMessage is still awaiting its
\* answer.
C29_HookStateConsistent ==
  /\ ~(hook.error # None /\ hook.result # None)
  /\ (\E k \in HookCalls : hcall[k].pc = "await") => hook.isLoading

(***************************************************************************)
(* SIGTERM and SIGINT.  The listeners of a signal run in the order they    *)
(* were registered: app.ts registers its own on import, before             *)
(* startServer registers gracefulShutdown.                                 *)
(***************************************************************************)
Signals == {"SIGTERM", "SIGINT"}

\* process.on(signal, ...) in registration order: app.ts, then database.ts
\* (SIGINT only, in connect), then server.ts
SignalListeners(signal) ==
  <<"app">>
    \o (IF started /\ signal = "SIGINT" THEN <<"database">> ELSE <<>>)
    \o (IF started THEN <<"server">> ELSE <<>>)

\* The HTTP server accepts connections
Listening == started /\ ~proc.closed

\* Database.isConnected
DatabaseConnected == started /\ ~proc.database

Alive == ~proc.exited

\* The signal arrives and its first listener runs.  The listener of app.ts
\* logs and calls process.exit(0), which ends the process before any other
\* listener is called; gracefulShutdown begins with server.close.
ReceiveSignal(signal) ==
  /\ Alive
  /\ proc.signal = None
  /\ proc' = IF Head(SignalListeners(signal)) = "app"
               THEN [proc EXCEPT !.signal = signal, !.exited = TRUE, !.code = 0]
             ELSE IF Head(SignalListeners(signal)) = "server"
               THEN [proc EXCEPT !.signal = signal, !.closed = TRUE]
             ELSE [proc EXCEPT !.signal = signal, !.database = TRUE]
  /\ UNCHANGED <<now, started, cacheVars, store, dbVars, history, users,
                 patternVars, req, direct, frontVars, web, hits, passed>>

\* Health checks and connection losses until a signal ends the process.
NextShutdown ==
  \/ Alive /\ StartServer
  \/ Alive /\ RedisFail
  \/ Alive /\ RedisRecover
  \/ Alive /\ OnClientError
  \/ Alive /\ OnClientConnect
  \/ Alive /\ DbFail
  \/ Alive /\ DbRecover
  \/ Alive /\ started /\ WebReceive(MaxWebReqs, {"health"}, {TRUE}, {FALSE},
                                     {None}, {TRUE}, {DefaultLimit})
  \/ Alive /\ WebContentType
  \/ Alive /\ WebRequestSize
  \/ Alive /\ WebGeneralLimit
  \/ Alive /\ WebRoute
  \/ Alive /\ WebHealth
  \/ \E signal \in Signals : ReceiveSignal(signal)

SpecShutdown == Init /\ [][NextShutdown]_vars

\* C30: the process that exits after SIGTERM or SIGINT has stopped accepting
\* connections and has disconnected the database and the cache.
C30_ExitsAfterDisconnect ==
  (proc.exited /\ proc.signal \in Signals) =>
    /\ ~Listening
    /\ ~DatabaseConnected
    /\ ~isConnected

====
